---- MODULE Spec2Model ----
(***************************************************************************)
(* Model of the evalua core runtime (packages/core): the Trace/span model, *)
(* RuntimeCtx, validateWithZod, the defineStep / defineWorkflow wrappers   *)
(* and createRuntime(...).run.  One behaviour is one runtime.run call on a *)
(* chain of wrapped units (a workflow whose body delegates to the next     *)
(* unit, down to a step), executed as a call stack of frames.              *)
(***************************************************************************)
EXTENDS Integers, Sequences, FiniteSets, TLC

(* Depth of the chain of wrapped units: level 1 .. MaxDepth-1 are          *)
(* workflows, level MaxDepth is a step.                                     *)
MaxDepth == 3

Levels == 1..MaxDepth

(* Absent values: an optional string field, an absent span id.             *)
Undefined == "undefined"
NoSpan == 0
NoIssues == <<>>

(* Values that cross a schema boundary: one that satisfies the schema as   *)
(* is, one that the schema accepts and normalises (a default is filled in, *)
(* an unknown key is stripped), and one that violates the schema.          *)
Values == {"valid", "coercible", "invalid"}

(* ------------------------------------------------------------------ *)
(* Errors                                                               *)
(* ------------------------------------------------------------------ *)

(* class ValidationError: issues + message; oid stands for the object's   *)
(* identity (the position of the validation_error event written when it   *)
(* was constructed).                                                       *)
ValidationError(issues, message, oid) ==
  [kind |-> "ValidationError", oid |-> <<"validation", oid>>,
   message |-> message, issues |-> issues, text |-> "ValidationError"]

(* What a step or workflow body, or the callback of Trace.span, can throw: *)
(* two Error objects and a thrown string (which has no message).           *)
Throwables ==
  { [kind |-> "Error", oid |-> <<"body", 1>>, message |-> "boom",
     issues |-> NoIssues, text |-> "Error: boom"],
    [kind |-> "Error", oid |-> <<"body", 2>>, message |-> "boom",
     issues |-> NoIssues, text |-> "Error: boom"],
    [kind |-> "string", oid |-> <<"body", 3>>, message |-> Undefined,
     issues |-> NoIssues, text |-> "oops"] }

NoErr ==
  [kind |-> "none", oid |-> <<"none", 0>>, message |-> Undefined,
   issues |-> NoIssues, text |-> Undefined]

(* Variant: String(err) where the message is meant.                       *)
ErrorText_String(err) == err.text

(* err?.message ?? String(err) *)
ErrorText(err) == IF err.message # Undefined THEN err.message ELSE err.text

(* ------------------------------------------------------------------ *)
(* Units: the wrapped steps and workflows                               *)
(* ------------------------------------------------------------------ *)

UnitKind(level) == IF level = MaxDepth THEN "step" ELSE "workflow"
UnitName(level) == <<UnitKind(level), level>>
NoName == <<"none", 0>>

(* schema.safeParse(value) of zod: success with the normalised data, or   *)
(* failure with an issue list.                                            *)
safeParse(schema, value) ==
  IF value = "invalid"
  THEN [success |-> FALSE, data |-> Undefined, issues |-> <<schema, value>>]
  ELSE [success |-> TRUE, data |-> "valid", issues |-> NoIssues]

(* ------------------------------------------------------------------ *)
(* Trace events                                                         *)
(* ------------------------------------------------------------------ *)

Event(type, runId, spanId, parentSpanId, name, error, direction, issues) ==
  [type |-> type, runId |-> runId, spanId |-> spanId,
   parentSpanId |-> parentSpanId, name |-> name, error |-> error,
   direction |-> direction, issues |-> issues]

SpanStart(runId, spanId, parentSpanId, name) ==
  Event("span_start", runId, spanId, parentSpanId, name, Undefined, Undefined, NoIssues)

SpanEnd(runId, spanId, parentSpanId, name, error) ==
  Event("span_end", runId, spanId, parentSpanId, name, error, Undefined, NoIssues)

ValidationErrorEvent(runId, spanId, direction, issues) ==
  Event("validation_error", runId, spanId, NoSpan, NoName, Undefined, direction, issues)

(* The Trace handle of a context: run id, own span id, parent span id.    *)
TraceHandle(runId, spanId, parentSpanId) ==
  [runId |-> runId, spanId |-> spanId, parentSpanId |-> parentSpanId]

NoHandle == TraceHandle(0, NoSpan, NoSpan)

VARIABLES
  trace,     \* the events handed to sink.write, in write order
  closes,    \* one entry per sink.close(): the number of events written before it
  uuids,     \* number of randomUUID() calls so far
  stack,     \* call stack of frames; the last one is executing
  ret,       \* completion of the frame that returned last
  outcome,   \* how runtime.run settled
  req,       \* the arguments of runtime.run
  opened,    \* history: span id -> the operation that opened it
  units,     \* history: wrapper span id -> what the wrapper invocation did
  thrown     \* history: the values thrown by bodies and callbacks, in order

VARIABLES
  cache,     \* ctx.cache: whether one is configured, and its entries by key
  gens,      \* the generate calls: call -> its position and locals
  responded, \* history: the responder invocations, in order
  registry,  \* InMemoryToolRegistry.tools: name -> tool
  tcall,     \* the tools.call invocations, in order: position and locals
  tlog,      \* history: the register calls, in order
  kin,       \* the values given to stableStringify
  kout       \* the strings stableStringify returned for them

VARIABLES
  runtime,   \* createRuntime's options: the caller's sink if any, the collaborators
  parked     \* the call of runtime.run that is not executing: its stack and results

VARIABLES
  espec,     \* the EvalSpec given to runEval: dataset, judges, thresholds
  ev,        \* the runEval call: its position and locals
  elog       \* history: the runs and judge invocations runEval made, in order

(* The variables of the run orchestrator, of the generation client, of the *)
(* tool registry and of the cache-key derivation.                          *)
runVars == <<closes, uuids, stack, outcome, req, opened, units, thrown, runtime, parked>>
genVars == <<cache, gens, responded>>
toolVars == <<registry, tcall, tlog>>
keyVars == <<kin, kout>>
evalVars == <<espec, ev, elog>>

vars == <<trace, ret, runVars, genVars, toolVars, keyVars, evalVars>>


(* ------------------------------------------------------------------ *)
(* Frames, completions and the run's outcome                            *)
(* ------------------------------------------------------------------ *)

(* fn: "run" (createRuntime.run), "unit" (a defineStep/defineWorkflow      *)
(* wrapper), "body" (the wrapped originalRun), "span" (Trace.span).        *)
(* ctx is the context the function received, own the context or handle it *)
(* created for its own span.                                              *)
Frame(fn, pc, level, ctx, own, input, err, status) ==
  [fn |-> fn, pc |-> pc, level |-> level, ctx |-> ctx, own |-> own,
   input |-> input, err |-> err, status |-> status]

Top == stack[Len(stack)]
Pop == SubSeq(stack, 1, Len(stack) - 1)
Goto(f) == [stack EXCEPT ![Len(stack)] = f]
Call(f, g) == Append(Goto(f), g)
Running(fn, pc) == stack # <<>> /\ Top.fn = fn /\ Top.pc = pc

NoRet == [kind |-> "none", val |-> Undefined, err |-> NoErr]
Returned(v) == [kind |-> "value", val |-> v, err |-> NoErr]
Threw(e) == [kind |-> "throw", val |-> Undefined, err |-> e]

(* interface RunRecord: runId, target, status (timestamps left out).      *)
RunRecord(runId, target, status) ==
  [runId |-> runId, target |-> target, status |-> status]

NoRecord == RunRecord(0, NoName, Undefined)

Outcome(kind, output, record, err) ==
  [kind |-> kind, output |-> output, record |-> record, err |-> err]

(* ------------------------------------------------------------------ *)
(* Trace, RuntimeCtx and validateWithZod                                *)
(* ------------------------------------------------------------------ *)

(* Trace.emit / TraceSink.write: append the event to the sink.            *)
emit(tr, event) == Append(tr, event)

(* Variant: the new span is given the parent of this handle's span.        *)
child_detached(t, name, childSpanId, tr) ==
  [trace |-> emit(tr, SpanStart(t.runId, childSpanId, t.parentSpanId, name)),
   handle |-> TraceHandle(t.runId, childSpanId, t.parentSpanId)]

(* Trace.child(name): a fresh span id, a span_start whose parent is this  *)
(* handle's span, a handle scoped to the new span.  RuntimeCtx.child      *)
(* builds the child context around that handle.                           *)
child(t, name, childSpanId, tr) ==
  [trace |-> emit(tr, SpanStart(t.runId, childSpanId, t.spanId, name)),
   handle |-> TraceHandle(t.runId, childSpanId, t.spanId)]

(* createRuntime's options as the contexts carry them: the llm client,   *)
(* the tool registry, the cache and the policies, each named by its       *)
(* identity; policies is left out or given, e.g. {repairAttempts: 2,      *)
(* onValidationError: 'skip'}.                                            *)
Options ==
  {[llm |-> "options.llm", tools |-> "options.tools", cache |-> "options.cache",
    policies |-> Undefined],
   [llm |-> "options.llm", tools |-> "options.tools", cache |-> "options.cache",
    policies |-> "options.policies"]}

(* The runtime createRuntime returns: options.trace.sink (undefined when  *)
(* every run is to get a JsonlTraceSink of its own) and the collaborators *)
(* that run puts in the root context.                                     *)
Runtime(sink, options) == [sink |-> sink, options |-> options]

(* A call of runtime.run as far as it is kept while another one executes. *)
RunCall(st, r, o, q) == [stack |-> st, ret |-> r, outcome |-> o, req |-> q]

(* new RuntimeCtx(runId, spanId, trace, llm, tools, cache, policies): the *)
(* fields runId, spanId and parentSpanId are those of its trace handle.   *)
RuntimeCtx(t, llm, tools, theCache, policies) ==
  [runId |-> t.runId, spanId |-> t.spanId, parentSpanId |-> t.parentSpanId,
   llm |-> llm, tools |-> tools, cache |-> theCache, policies |-> policies]

(* Variant: the context keeps a cursor that child() moves to the new span. *)
RuntimeCtx_child_cursor(ctx, stepName, childSpanId, tr) ==
  LET c == child(ctx, stepName, childSpanId, tr)
      next == RuntimeCtx(c.handle, ctx.llm, ctx.tools, ctx.cache, ctx.policies)
  IN [trace |-> c.trace, handle |-> c.handle, this |-> next, ctx |-> next]

(* RuntimeCtx.child(stepName): a child of the context's trace handle and  *)
(* a new context around it with the same collaborators; `this` is the     *)
(* receiver after the call, whose fields are readonly.                    *)
RuntimeCtx_child(ctx, stepName, childSpanId, tr) ==
  LET c == child(ctx, stepName, childSpanId, tr)
  IN [trace |-> c.trace, handle |-> c.handle, this |-> ctx,
      ctx |-> RuntimeCtx(c.handle, ctx.llm, ctx.tools, ctx.cache, ctx.policies)]

(* Variant: the failure is traced and the value passed on unparsed.       *)
validateWithZod_lenient(schema, value, direction, t, spanId, tr) ==
  LET result == safeParse(schema, value) IN
  IF ~result.success
  THEN [threw |-> FALSE,
        trace |-> emit(tr, ValidationErrorEvent(t.runId, spanId, direction, result.issues)),
        err |-> NoErr, data |-> value]
  ELSE [threw |-> FALSE, trace |-> tr, err |-> NoErr, data |-> result.data]

(* Variant: only inputs are checked.                                      *)
validateWithZod_inputOnly(schema, value, direction, t, spanId, tr) ==
  LET result == safeParse(schema, value) IN
  IF direction = "input" /\ ~result.success
  THEN [threw |-> TRUE,
        trace |-> emit(tr, ValidationErrorEvent(t.runId, spanId, direction, result.issues)),
        err |-> ValidationError(result.issues, "input validation failed", Len(tr) + 1),
        data |-> Undefined]
  ELSE [threw |-> FALSE, trace |-> tr, err |-> NoErr,
        data |-> IF result.success THEN result.data ELSE value]

(* validateWithZod(schema, value, direction, trace, spanId): the parsed   *)
(* data, or a validation_error event followed by a thrown ValidationError.*)
validateWithZod(schema, value, direction, t, spanId, tr) ==
  LET result == safeParse(schema, value) IN
  IF ~result.success
  THEN [threw |-> TRUE,
        trace |-> emit(tr, ValidationErrorEvent(t.runId, spanId, direction, result.issues)),
        err |-> ValidationError(result.issues,
                                IF direction = "input" THEN "input validation failed"
                                                       ELSE "output validation failed",
                                Len(tr) + 1),
        data |-> Undefined]
  ELSE [threw |-> FALSE, trace |-> tr, err |-> NoErr, data |-> result.data]

(* The span_end event a wrapper or Trace.span writes for its own span.    *)
ownSpanEnd(t, name, error) ==
  SpanEnd(t.runId, t.spanId, t.parentSpanId, name, error)

(* History record of one validated boundary (a wrapper invocation, or the *)
(* orchestrator's call of its target): the input it was given, how often  *)
(* it invoked what it wraps, how that settled and how it settled itself.  *)
UnitRecord(level, input) ==
  [level |-> level, input |-> input, body |-> 0, bodyRet |-> NoRet,
   result |-> NoRet]

Init ==
  /\ trace = <<>>
  /\ closes = <<>>
  /\ uuids = 0
  /\ stack = <<>>
  /\ ret = NoRet
  /\ outcome = Outcome("idle", Undefined, NoRecord, NoErr)
  /\ req = [target |-> 0, wrapped |-> TRUE, input |-> Undefined, runId |-> 0,
            rootSpanId |-> NoSpan]
  /\ opened = <<>>
  /\ units = <<>>
  /\ thrown = <<>>
  /\ runtime \in {Runtime(Undefined, options) : options \in Options}
  /\ parked = RunCall(stack, ret, outcome, req)
  /\ cache = <<>>
  /\ gens = <<>>
  /\ responded = <<>>
  /\ registry = <<>>
  /\ tcall = <<>>
  /\ tlog = <<>>
  /\ kin = <<>>
  /\ kout = <<>>
  /\ espec = <<>>
  /\ ev = <<>>
  /\ elog = <<>>


InputSchema(level) == <<UnitName(level), "input">>
OutputSchema(level) == <<UnitName(level), "output">>

(* ------------------------------------------------------------------ *)
(* createRuntime(...).run                                               *)
(* ------------------------------------------------------------------ *)

(* Variant: the Trace is made once for the runtime; a run that starts     *)
(* while another call of run has begun uses that one's run id and root.   *)
run_start_runtimeTrace ==
  /\ outcome.kind = "idle"
  /\ \E target \in Levels, wrapped \in BOOLEAN, input \in Values :
       LET options == runtime.options
           fresh == parked.req.runId = 0
           runId == IF fresh THEN uuids + 1 ELSE parked.req.runId
           rootSpanId == IF fresh THEN uuids + 2 ELSE parked.req.rootSpanId
           t == TraceHandle(runId, rootSpanId, NoSpan)
           ctx == RuntimeCtx(t, options.llm, options.tools, options.cache,
                             options.policies)
       IN /\ uuids' = uuids + 2
          /\ trace' = emit(trace, SpanStart(runId, rootSpanId, NoSpan, UnitName(target)))
          /\ req' = [target |-> target, wrapped |-> wrapped, input |-> input,
                     runId |-> runId, rootSpanId |-> rootSpanId]
          /\ opened' = opened @@ (rootSpanId :> "run")
          /\ units' = units @@ (rootSpanId :> UnitRecord(target, input))
          /\ stack' = <<Frame("run", "try", target, ctx, t, input, NoErr, "success")>>
          /\ outcome' = Outcome("pending", Undefined, NoRecord, NoErr)
  /\ UNCHANGED <<closes, ret, thrown>>

(* run(target, input) up to the try: a run id, a sink, a root span id, the *)
(* root span_start, the root context.  The target is a unit made with      *)
(* defineStep / defineWorkflow, or a plain Step / Workflow object whose    *)
(* run is the body itself.                                                 *)
run_start ==
  /\ outcome.kind = "idle"
  /\ \E target \in Levels, wrapped \in BOOLEAN, input \in Values :
       LET options == runtime.options
           runId == uuids + 1
           rootSpanId == uuids + 2
           t == TraceHandle(runId, rootSpanId, NoSpan)
           ctx == RuntimeCtx(t, options.llm, options.tools, options.cache,
                             options.policies)
       IN /\ uuids' = uuids + 2
          /\ trace' = emit(trace, SpanStart(runId, rootSpanId, NoSpan, UnitName(target)))
          /\ req' = [target |-> target, wrapped |-> wrapped, input |-> input,
                     runId |-> runId, rootSpanId |-> rootSpanId]
          /\ opened' = opened @@ (rootSpanId :> "run")
          /\ units' = units @@ (rootSpanId :> UnitRecord(target, input))
          /\ stack' = <<Frame("run", "try", target, ctx, t, input, NoErr, "success")>>
          /\ outcome' = Outcome("pending", Undefined, NoRecord, NoErr)
  /\ UNCHANGED <<closes, ret, thrown>>

(* Variant: the target is called with the input as given.                 *)
run_validate_input_late ==
  /\ Running("run", "try")
  /\ stack' = Call([Top EXCEPT !.pc = "await_target"],
                   IF req.wrapped
                   THEN Frame("unit", "call", Top.level, Top.ctx, NoHandle, Top.input,
                              NoErr, Undefined)
                   ELSE Frame("body", "start", Top.level, Top.ctx, Top.ctx, Top.input,
                              NoErr, Undefined))
  /\ units' = [units EXCEPT ![Top.ctx.spanId].body = 1]
  /\ ret' = NoRet
  /\ UNCHANGED <<trace, closes, uuids, outcome, req, opened, thrown>>

(* First statements of the try: validate the top-level input on the root  *)
(* span, then call target.run(ctx, validatedInput).                        *)
run_validate_input ==
  /\ Running("run", "try")
  /\ LET f == Top
         v == validateWithZod(InputSchema(f.level), f.input, "input", f.ctx,
                              f.ctx.spanId, trace)
     IN /\ trace' = v.trace
        /\ IF v.threw
           THEN /\ stack' = Goto([f EXCEPT !.pc = "catch", !.err = v.err])
                /\ UNCHANGED units
           ELSE /\ stack' = Call([f EXCEPT !.pc = "await_target"],
                                 IF req.wrapped
                                 THEN Frame("unit", "call", f.level, f.ctx, NoHandle,
                                            v.data, NoErr, Undefined)
                                 ELSE Frame("body", "start", f.level, f.ctx, f.ctx,
                                            v.data, NoErr, Undefined))
                /\ units' = [units EXCEPT ![f.ctx.spanId].body = 1]
  /\ ret' = NoRet
  /\ UNCHANGED <<closes, uuids, outcome, req, opened, thrown>>

(* Variant: the target's output is returned as it came.                   *)
run_return_raw(f, output, validatedOutput) ==
  /\ trace' = emit(trace, SpanEnd(f.ctx.runId, f.ctx.spanId, NoSpan,
                                  UnitName(f.level), Undefined))
  /\ closes' = Append(closes, Len(trace'))
  /\ outcome' = Outcome("returned", output,
                        RunRecord(f.ctx.runId, UnitName(f.level), f.status), NoErr)
  /\ units' = [units EXCEPT ![f.ctx.spanId].bodyRet = Returned(output),
                            ![f.ctx.spanId].result = Returned(output)]
  /\ stack' = Pop

(* The end of the try: the root span_end, the record, sink.close(),       *)
(* return {output: validatedOutput, record}.                              *)
run_return(f, output, validatedOutput) ==
  /\ trace' = emit(trace, SpanEnd(f.ctx.runId, f.ctx.spanId, NoSpan,
                                  UnitName(f.level), Undefined))
  /\ closes' = Append(closes, Len(trace'))
  /\ outcome' = Outcome("returned", validatedOutput,
                        RunRecord(f.ctx.runId, UnitName(f.level), f.status), NoErr)
  /\ units' = [units EXCEPT ![f.ctx.spanId].bodyRet = Returned(output),
                            ![f.ctx.spanId].result = Returned(validatedOutput)]
  /\ stack' = Pop

(* target.run settled.  Rejected: to the catch block.  Fulfilled: validate *)
(* the output on the root span, write the root span_end, build the record, *)
(* close the sink, return {output, record}.                                *)
run_target_settled ==
  /\ Running("run", "await_target")
  /\ ret.kind # "none"
  /\ LET f == Top
         v == validateWithZod(OutputSchema(f.level), ret.val, "output", f.ctx,
                              f.ctx.spanId, trace)
     IN IF ret.kind = "throw"
        THEN /\ stack' = Goto([f EXCEPT !.pc = "catch", !.err = ret.err])
             /\ units' = [units EXCEPT ![f.ctx.spanId].bodyRet = ret]
             /\ UNCHANGED <<trace, closes, outcome>>
        ELSE IF v.threw
        THEN /\ trace' = v.trace
             /\ stack' = Goto([f EXCEPT !.pc = "catch", !.err = v.err])
             /\ units' = [units EXCEPT ![f.ctx.spanId].bodyRet = ret]
             /\ UNCHANGED <<closes, outcome>>
        ELSE run_return(f, ret.val, v.data)
  /\ ret' = NoRet
  /\ UNCHANGED <<uuids, req, opened, thrown>>

(* Variant: the failure path leaves the sink open.                        *)
run_catch_unclosed ==
  /\ Running("run", "catch")
  /\ LET f == [Top EXCEPT !.status = "failure"]
     IN /\ trace' = emit(trace, SpanEnd(f.ctx.runId, f.ctx.spanId, NoSpan,
                                        UnitName(f.level), ErrorText(f.err)))
        /\ outcome' = Outcome("threw", Undefined, NoRecord, f.err)
        /\ units' = [units EXCEPT ![f.ctx.spanId].result = Threw(f.err)]
        /\ stack' = Pop
  /\ UNCHANGED <<closes, uuids, ret, req, opened, thrown>>

(* The catch block: status = 'failure', the root span_end with the error  *)
(* text, sink.close(), throw err.  The status is assigned and never read: *)
(* no record leaves the function on this path.                            *)
run_catch ==
  /\ Running("run", "catch")
  /\ LET f == [Top EXCEPT !.status = "failure"]
     IN /\ trace' = emit(trace, SpanEnd(f.ctx.runId, f.ctx.spanId, NoSpan,
                                        UnitName(f.level), ErrorText(f.err)))
        /\ closes' = Append(closes, Len(trace'))
        /\ outcome' = Outcome("threw", Undefined, NoRecord, f.err)
        /\ units' = [units EXCEPT ![f.ctx.spanId].result = Threw(f.err)]
        /\ stack' = Pop
  /\ UNCHANGED <<uuids, ret, req, opened, thrown>>

(* ------------------------------------------------------------------ *)
(* defineStep(...).run and defineWorkflow(...).run                      *)
(* ------------------------------------------------------------------ *)

(* Variant: with policies given, an input that fails validation is passed *)
(* to the body as it is (onValidationError: 'skip').                      *)
wrapper_enter_skipping(kind) ==
  /\ Running("unit", "call")
  /\ UnitKind(Top.level) = kind
  /\ LET f == Top
         spanId == uuids + 1
         c == RuntimeCtx_child(f.ctx, UnitName(f.level), spanId, trace)
         v == validateWithZod(InputSchema(f.level), f.input, "input", c.handle,
                              c.handle.spanId, c.trace)
         u == UnitRecord(f.level, f.input)
     IN /\ uuids' = uuids + 1
        /\ opened' = opened @@ (spanId :> "wrapper")
        /\ trace' = v.trace
        /\ IF v.threw /\ f.ctx.policies = Undefined
           THEN /\ stack' = Pop
                /\ ret' = Threw(v.err)
                /\ units' = units @@ (spanId :> [u EXCEPT !.result = Threw(v.err)])
           ELSE /\ stack' = Call([f EXCEPT !.pc = "await_body", !.ctx = c.this,
                                            !.own = c.handle],
                                 Frame("body", "start", f.level, c.ctx, c.handle,
                                       IF v.threw THEN f.input ELSE v.data, NoErr,
                                       Undefined))
                /\ ret' = NoRet
                /\ units' = units @@ (spanId :> [u EXCEPT !.body = 1])
  /\ UNCHANGED <<closes, outcome, req, thrown>>

(* Variant: the span_end is written as soon as the body has been called.  *)
wrapper_enter_endsFirst(kind) ==
  /\ Running("unit", "call")
  /\ UnitKind(Top.level) = kind
  /\ LET f == Top
         spanId == uuids + 1
         c == RuntimeCtx_child(f.ctx, UnitName(f.level), spanId, trace)
         v == validateWithZod(InputSchema(f.level), f.input, "input", c.handle,
                              c.handle.spanId, c.trace)
         u == UnitRecord(f.level, f.input)
     IN /\ uuids' = uuids + 1
        /\ opened' = opened @@ (spanId :> "wrapper")
        /\ IF v.threw
           THEN /\ trace' = v.trace
                /\ stack' = Pop
                /\ ret' = Threw(v.err)
                /\ units' = units @@ (spanId :> [u EXCEPT !.result = Threw(v.err)])
           ELSE /\ trace' = emit(v.trace, ownSpanEnd(c.handle, UnitName(f.level),
                                                     Undefined))
                /\ stack' = Call([f EXCEPT !.pc = "await_body", !.ctx = c.this,
                                            !.own = c.handle],
                                 Frame("body", "start", f.level, c.ctx, c.handle,
                                       v.data, NoErr, Undefined))
                /\ ret' = NoRet
                /\ units' = units @@ (spanId :> [u EXCEPT !.body = 1])
  /\ UNCHANGED <<closes, outcome, req, thrown>>

(* The wrapper up to the await: ctx.child(name) opens the unit's span,    *)
(* the input is validated on it (before the try, so a failure leaves the  *)
(* function at once), then originalRun(spanCtx, validatedInput) is called.*)
wrapper_enter(kind) ==
  /\ Running("unit", "call")
  /\ UnitKind(Top.level) = kind
  /\ LET f == Top
         spanId == uuids + 1
         c == RuntimeCtx_child(f.ctx, UnitName(f.level), spanId, trace)
         v == validateWithZod(InputSchema(f.level), f.input, "input", c.handle,
                              c.handle.spanId, c.trace)
         u == UnitRecord(f.level, f.input)
     IN /\ uuids' = uuids + 1
        /\ opened' = opened @@ (spanId :> "wrapper")
        /\ trace' = v.trace
        /\ IF v.threw
           THEN /\ stack' = Pop
                /\ ret' = Threw(v.err)
                /\ units' = units @@ (spanId :> [u EXCEPT !.result = Threw(v.err)])
           ELSE /\ stack' = Call([f EXCEPT !.pc = "await_body", !.ctx = c.this,
                                            !.own = c.handle],
                                 Frame("body", "start", f.level, c.ctx, c.handle,
                                       v.data, NoErr, Undefined))
                /\ ret' = NoRet
                /\ units' = units @@ (spanId :> [u EXCEPT !.body = 1])
  /\ UNCHANGED <<closes, outcome, req, thrown>>

(* Variant: the catch block writes the span_end and returns no value      *)
(* instead of rethrowing.                                                 *)
wrapper_settled_swallowed(kind) ==
  /\ Running("unit", "await_body")
  /\ UnitKind(Top.level) = kind
  /\ ret.kind # "none"
  /\ LET f == Top
         name == UnitName(f.level)
         v == validateWithZod(OutputSchema(f.level), ret.val, "output", f.own,
                              f.own.spanId, trace)
         err == IF ret.kind = "throw" THEN ret.err ELSE v.err
         r == IF ret.kind = "value" /\ ~v.threw THEN Returned(v.data)
              ELSE Returned(Undefined)
     IN /\ trace' = IF ret.kind = "throw"
                    THEN emit(trace, ownSpanEnd(f.own, name, ErrorText(err)))
                    ELSE IF v.threw
                    THEN emit(v.trace, ownSpanEnd(f.own, name, ErrorText(err)))
                    ELSE emit(trace, ownSpanEnd(f.own, name, Undefined))
        /\ ret' = r
        /\ units' = [units EXCEPT ![f.own.spanId].bodyRet = ret,
                                  ![f.own.spanId].result = r]
  /\ stack' = Pop
  /\ UNCHANGED <<closes, uuids, outcome, req, opened, thrown>>

(* originalRun settled.  Fulfilled: validate the output on the unit's     *)
(* span, write its span_end, return the validated output.  Rejected, or   *)
(* output invalid: the catch block writes the span_end with the error     *)
(* text and rethrows.                                                     *)
wrapper_settled(kind) ==
  /\ Running("unit", "await_body")
  /\ UnitKind(Top.level) = kind
  /\ ret.kind # "none"
  /\ LET f == Top
         name == UnitName(f.level)
         v == validateWithZod(OutputSchema(f.level), ret.val, "output", f.own,
                              f.own.spanId, trace)
         err == IF ret.kind = "throw" THEN ret.err ELSE v.err
         r == IF ret.kind = "value" /\ ~v.threw THEN Returned(v.data) ELSE Threw(err)
     IN /\ trace' = IF ret.kind = "throw"
                    THEN emit(trace, ownSpanEnd(f.own, name, ErrorText(err)))
                    ELSE IF v.threw
                    THEN emit(v.trace, ownSpanEnd(f.own, name, ErrorText(err)))
                    ELSE emit(trace, ownSpanEnd(f.own, name, Undefined))
        /\ ret' = r
        /\ units' = [units EXCEPT ![f.own.spanId].bodyRet = ret,
                                  ![f.own.spanId].result = r]
  /\ stack' = Pop
  /\ UNCHANGED <<closes, uuids, outcome, req, opened, thrown>>

defineStep_run == wrapper_enter("step") \/ wrapper_settled("step")

defineWorkflow_run == wrapper_enter("workflow") \/ wrapper_settled("workflow")


(* ------------------------------------------------------------------ *)
(* The wrapped bodies (user code, as the repository's examples write    *)
(* them): a body returns a value, throws, delegates to the next unit    *)
(* with its own context or with ctx.child(...), or runs a callback      *)
(* under ctx.trace.span(...).  A body does not catch what it awaits.    *)
(* ------------------------------------------------------------------ *)

ChildName(level) == <<"child", level>>
SpanName(level) == <<"span", level>>

Thrown(err, level, fn) == [err |-> err, level |-> level, fn |-> fn]

body_return ==
  /\ Running("body", "start")
  /\ \E v \in Values : ret' = Returned(v)
  /\ stack' = Pop
  /\ UNCHANGED <<trace, closes, uuids, outcome, req, opened, units, thrown>>

body_throw ==
  /\ Running("body", "start")
  /\ \E e \in Throwables :
       /\ ret' = Threw(e)
       /\ thrown' = Append(thrown, Thrown(e, Top.level, "body"))
  /\ stack' = Pop
  /\ UNCHANGED <<trace, closes, uuids, outcome, req, opened, units>>

(* return summarizeStep.run(ctx, input) *)
body_delegate ==
  /\ Running("body", "start")
  /\ Top.level < MaxDepth
  /\ \E input \in Values :
       stack' = Call([Top EXCEPT !.pc = "await"],
                     Frame("unit", "call", Top.level + 1, Top.ctx, NoHandle, input,
                           NoErr, Undefined))
  /\ ret' = NoRet
  /\ UNCHANGED <<trace, closes, uuids, outcome, req, opened, units, thrown>>

(* return summarizeStep.run(ctx.child('summarize'), input): RuntimeCtx.child *)
(* opens a span through Trace.child and wraps the handle in a new context.  *)
body_child_delegate ==
  /\ Running("body", "start")
  /\ Top.level < MaxDepth
  /\ LET spanId == uuids + 1
         c == RuntimeCtx_child(Top.ctx, ChildName(Top.level), spanId, trace)
     IN /\ uuids' = uuids + 1
        /\ trace' = c.trace
        /\ opened' = opened @@ (spanId :> "ctx.child")
        /\ \E input \in Values :
             stack' = Call([Top EXCEPT !.pc = "await", !.ctx = c.this],
                           Frame("unit", "call", Top.level + 1, c.ctx, NoHandle,
                                 input, NoErr, Undefined))
  /\ ret' = NoRet
  /\ UNCHANGED <<closes, outcome, req, units, thrown>>

(* ctx.trace.span(name, fn): Trace.span opens the span with this.child     *)
(* and awaits fn().                                                        *)
body_trace_span ==
  /\ Running("body", "start")
  /\ LET spanId == uuids + 1
         c == child(Top.ctx, SpanName(Top.level), spanId, trace)
     IN /\ uuids' = uuids + 1
        /\ trace' = c.trace
        /\ opened' = opened @@ (spanId :> "Trace.span")
        /\ stack' = Call([Top EXCEPT !.pc = "await"],
                         Frame("span", "fn", Top.level, Top.ctx, c.handle, Undefined,
                               NoErr, Undefined))
  /\ ret' = NoRet
  /\ UNCHANGED <<closes, outcome, req, units, thrown>>

(* The awaited call settled: the body returns its value or lets the error  *)
(* propagate.                                                              *)
body_resume ==
  /\ Running("body", "await")
  /\ ret.kind # "none"
  /\ stack' = Pop
  /\ UNCHANGED <<trace, closes, uuids, ret, outcome, req, opened, units, thrown>>

(* The callback fn of Trace.span: it closes over the caller's context, so  *)
(* a unit it calls is a child of the caller's span.                        *)
callback_return ==
  /\ Running("span", "fn")
  /\ \E v \in Values : ret' = Returned(v)
  /\ stack' = Goto([Top EXCEPT !.pc = "settle"])
  /\ UNCHANGED <<trace, closes, uuids, outcome, req, opened, units, thrown>>

callback_throw ==
  /\ Running("span", "fn")
  /\ \E e \in Throwables :
       /\ ret' = Threw(e)
       /\ thrown' = Append(thrown, Thrown(e, Top.level, "span"))
  /\ stack' = Goto([Top EXCEPT !.pc = "settle"])
  /\ UNCHANGED <<trace, closes, uuids, outcome, req, opened, units>>

callback_delegate ==
  /\ Running("span", "fn")
  /\ Top.level < MaxDepth
  /\ \E input \in Values :
       stack' = Call([Top EXCEPT !.pc = "settle"],
                     Frame("unit", "call", Top.level + 1, Top.ctx, NoHandle, input,
                           NoErr, Undefined))
  /\ ret' = NoRet
  /\ UNCHANGED <<trace, closes, uuids, outcome, req, opened, units, thrown>>

(* Variant: the span_end is written only when fn returned.                *)
Trace_span_settled_silent ==
  /\ Running("span", "settle")
  /\ ret.kind # "none"
  /\ trace' = IF ret.kind = "throw" THEN trace
              ELSE emit(trace, ownSpanEnd(Top.own, SpanName(Top.level), Undefined))
  /\ stack' = Pop
  /\ UNCHANGED <<closes, uuids, ret, outcome, req, opened, units, thrown>>

(* Trace.span after the await: the span_end of the span, with the error   *)
(* text when fn threw; the result is returned, the error rethrown.        *)
Trace_span_settled ==
  /\ Running("span", "settle")
  /\ ret.kind # "none"
  /\ trace' = emit(trace, ownSpanEnd(Top.own, SpanName(Top.level),
                                     IF ret.kind = "throw" THEN ErrorText(ret.err)
                                                           ELSE Undefined))
  /\ stack' = Pop
  /\ UNCHANGED <<closes, uuids, ret, outcome, req, opened, units, thrown>>

(* A step of the run leaves the other components alone.                  *)
OthersIdle == UNCHANGED <<genVars, toolVars, keyVars, evalVars, runtime, parked>>

Next ==
  \/ run_start /\ OthersIdle
  \/ run_validate_input /\ OthersIdle
  \/ run_target_settled /\ OthersIdle
  \/ run_catch /\ OthersIdle
  \/ defineStep_run /\ OthersIdle
  \/ defineWorkflow_run /\ OthersIdle
  \/ body_return /\ OthersIdle
  \/ body_throw /\ OthersIdle
  \/ body_delegate /\ OthersIdle
  \/ body_child_delegate /\ OthersIdle
  \/ body_trace_span /\ OthersIdle
  \/ body_resume /\ OthersIdle
  \/ callback_return /\ OthersIdle
  \/ callback_throw /\ OthersIdle
  \/ callback_delegate /\ OthersIdle
  \/ Trace_span_settled /\ OthersIdle

Spec == Init /\ [][Next]_vars

(* ------------------------------------------------------------------ *)
(* Several runs of one runtime                                          *)
(* ------------------------------------------------------------------ *)

(* Two calls of runtime.run on one runtime (part_003:449-504).  Each call *)
(* has its own locals: runId, sink, rootSpanId, trace, ctx and what it    *)
(* awaits; the call that is not executing is kept in `parked`.  The event *)
(* loop resumes the other call when the executing one has settled or is   *)
(* about to be resumed after an await.  What the calls share is the       *)
(* runtime (its options) and the process: randomUUID and, in write order, *)
(* the events handed to sink.write.                                       *)
run_switch ==
  /\ outcome.kind # "idle"
  /\ req.target = MaxDepth
  /\ stack = <<>> \/ ret.kind # "none"
  /\ parked.outcome.kind \in {"idle", "pending"}
  /\ parked' = RunCall(stack, ret, outcome, req)
  /\ stack' = parked.stack
  /\ ret' = parked.ret
  /\ outcome' = parked.outcome
  /\ req' = parked.req
  /\ UNCHANGED <<trace, closes, uuids, opened, units, thrown, runtime>>

(* The runtime writes to the caller's sink (options.trace.sink) or gives  *)
(* every run a JsonlTraceSink of its own (part_003:454).                  *)
RunsInit ==
  /\ trace = <<>>
  /\ closes = <<>>
  /\ uuids = 0
  /\ stack = <<>>
  /\ ret = NoRet
  /\ outcome = Outcome("idle", Undefined, NoRecord, NoErr)
  /\ req = [target |-> 0, wrapped |-> TRUE, input |-> Undefined, runId |-> 0,
            rootSpanId |-> NoSpan]
  /\ opened = <<>>
  /\ units = <<>>
  /\ thrown = <<>>
  /\ runtime \in {Runtime(sink, CHOOSE options \in Options : options.policies = Undefined) :
                    sink \in {Undefined, "options.trace.sink"}}
  /\ parked = RunCall(stack, ret, outcome, req)
  /\ cache = <<>>
  /\ gens = <<>>
  /\ responded = <<>>
  /\ registry = <<>>
  /\ tcall = <<>>
  /\ tlog = <<>>
  /\ kin = <<>>
  /\ kout = <<>>
  /\ espec = <<>>
  /\ ev = <<>>
  /\ elog = <<>>

(* The runs explored: one run of a unit that delegates, or two runs of    *)
(* leaf units that overlap or follow each other.                          *)
RunsBound ==
  \/ req'.target = MaxDepth
  \/ req'.target = MaxDepth - 1 /\ parked.outcome.kind = "idle"

RunsIdle == UNCHANGED <<genVars, toolVars, keyVars, evalVars, runtime>>

RunsNext ==
  \/ run_start /\ RunsBound /\ OthersIdle
  \/ run_validate_input /\ OthersIdle
  \/ run_target_settled /\ OthersIdle
  \/ run_catch /\ OthersIdle
  \/ defineStep_run /\ OthersIdle
  \/ defineWorkflow_run /\ OthersIdle
  \/ body_return /\ OthersIdle
  \/ body_throw /\ OthersIdle
  \/ body_delegate /\ OthersIdle
  \/ body_child_delegate /\ OthersIdle
  \/ body_trace_span /\ OthersIdle
  \/ body_resume /\ OthersIdle
  \/ callback_return /\ OthersIdle
  \/ callback_throw /\ OthersIdle
  \/ callback_delegate /\ OthersIdle
  \/ Trace_span_settled /\ OthersIdle
  \/ run_switch /\ RunsIdle

RunsSpec == RunsInit /\ [][RunsNext]_vars


(* ------------------------------------------------------------------ *)
(* Properties                                                           *)
(* ------------------------------------------------------------------ *)

Settled == outcome.kind \in {"returned", "threw"}

Events(type) == {i \in DOMAIN trace : trace[i].type = type}
StartsOf(s) == {i \in Events("span_start") : trace[i].spanId = s}
EndsOf(s) == {j \in Events("span_end") : trace[j].spanId = s}
SpanIds == {trace[i].spanId : i \in Events("span_start") \cup Events("span_end")}
Wrappers == {s \in DOMAIN units : opened[s] = "wrapper"}
Root == req.rootSpanId

(* The span_end events that match the span_start at position i: the same  *)
(* run, span, parent and name, written after it.                          *)
MatchingEnds(i) ==
  {j \in Events("span_end") :
     /\ j > i
     /\ trace[j].runId = trace[i].runId
     /\ trace[j].spanId = trace[i].spanId
     /\ trace[j].parentSpanId = trace[i].parentSpanId
     /\ trace[j].name = trace[i].name}

InputOk(s) == safeParse(InputSchema(units[s].level), units[s].input).success
InputIssues(s) == safeParse(InputSchema(units[s].level), units[s].input).issues
OutputOk(s) == safeParse(OutputSchema(units[s].level), units[s].bodyRet.val).success
OutputIssues(s) == safeParse(OutputSchema(units[s].level), units[s].bodyRet.val).issues

(* C1: once the run has settled, every span_start of its trace is matched *)
(* by exactly one span_end with the same span id, parent id and name,     *)
(* written after the start, whatever opened the span and on every path.   *)
C1_EverySpanStartMatched ==
  Settled => \A i \in Events("span_start") :
               /\ Cardinality(MatchingEnds(i)) = 1
               /\ Cardinality(EndsOf(trace[i].spanId)) = 1

(* C2: a wrapper invocation whose input violates the input schema never   *)
(* invokes the body, writes one validation_error with direction 'input'   *)
(* on the unit's own span, and fails with a ValidationError whose message *)
(* is the 'input' one and which carries the issue list.                   *)
C2_InvalidInputRejected ==
  \A s \in Wrappers :
    ~InputOk(s) =>
      /\ units[s].body = 0
      /\ units[s].bodyRet = NoRet
      /\ \A k \in DOMAIN stack : stack[k].fn = "body" => stack[k].own.spanId # s
      /\ units[s].result.kind = "throw"
      /\ units[s].result.err.kind = "ValidationError"
      /\ units[s].result.err.message = "input validation failed"
      /\ units[s].result.err.issues = InputIssues(s)
      /\ Cardinality({i \in Events("validation_error") :
                        trace[i] = ValidationErrorEvent(req.runId, s, "input",
                                                        InputIssues(s))}) = 1
      /\ \A i \in Events("validation_error") :
           trace[i].spanId = s => trace[i].direction = "input"

(* C2 witness: a nested step was called with an invalid input and its     *)
(* wrapper has rejected it.                                               *)
C2_Witness ==
  \E s \in Wrappers :
    /\ ~InputOk(s)
    /\ units[s].level = MaxDepth
    /\ units[s].result.kind = "throw"
    /\ ret = units[s].result

(* C3: every wrapper invocation that has settled has written a span_end   *)
(* for its own span: on success, on input validation failure, on an error *)
(* thrown by the body and on output validation failure.                   *)
C3_WrapperAlwaysEndsSpan ==
  \A s \in Wrappers :
    units[s].result.kind # "none" => Cardinality(EndsOf(s)) = 1

(* C4: a run that returned has exactly one span_start and exactly one     *)
(* span_end for each span of its trace, the end later than the start,     *)
(* spans opened with ctx.child included.                                  *)
C4_SuccessfulRunBalanced ==
  outcome.kind = "returned" =>
    \A s \in SpanIds :
      /\ Cardinality(StartsOf(s)) = 1
      /\ Cardinality(EndsOf(s)) = 1
      /\ \A i \in StartsOf(s), j \in EndsOf(s) : i < j


(* C5: when the value a body (or, for the orchestrator, the target)       *)
(* returned violates the output schema, one validation_error with         *)
(* direction 'output' is written on that boundary's span, the boundary    *)
(* fails with a ValidationError, and no boundary - wrapper or             *)
(* runtime.run - ever returns a value other than the schema's parse of    *)
(* what it received.                                                      *)
C5_InvalidOutputRejected ==
  /\ \A s \in DOMAIN units :
       /\ (units[s].bodyRet.kind = "value" /\ ~OutputOk(s)) =>
            /\ units[s].result.kind \in {"none", "throw"}
            /\ units[s].result.kind = "throw" =>
                 /\ units[s].result.err.kind = "ValidationError"
                 /\ units[s].result.err.message = "output validation failed"
                 /\ units[s].result.err.issues = OutputIssues(s)
            /\ Cardinality({i \in Events("validation_error") :
                              trace[i] = ValidationErrorEvent(req.runId, s, "output",
                                                              OutputIssues(s))}) = 1
       /\ units[s].result.kind = "value" =>
            /\ units[s].bodyRet.kind = "value"
            /\ OutputOk(s)
            /\ units[s].result.val =
                 safeParse(OutputSchema(units[s].level), units[s].bodyRet.val).data
  /\ outcome.kind = "returned" =>
       /\ units[Root].result = Returned(outcome.output)
       /\ outcome.output # "invalid"
  /\ (outcome.kind = "threw" /\ units[Root].bodyRet.kind = "value") =>
       units[Root].result.kind = "throw"

(* C5 witness: the body of a wrapped unit returned an invalid value, the  *)
(* wrapper rejected it and the run failed with that ValidationError.      *)
C5_Witness ==
  \E s \in Wrappers :
    /\ units[s].bodyRet.kind = "value"
    /\ ~OutputOk(s)
    /\ units[s].result.kind = "throw"
    /\ outcome.kind = "threw"
    /\ outcome.err = units[s].result.err

(* C6: when a body throws during the run (a step nested in a workflow in  *)
(* particular), the settled run's trace holds exactly one span_end for    *)
(* the root span, it carries the thrown error's text, and the caller of   *)
(* runtime.run receives that very error object.                           *)
C6_NestedThrowReachesCaller ==
  (Settled /\ thrown # <<>>) =>
    LET e == thrown[1].err IN
    /\ Len(thrown) = 1
    /\ Cardinality(EndsOf(Root)) = 1
    /\ \A j \in EndsOf(Root) :
         /\ trace[j].error = ErrorText(e)
         /\ e.kind = "Error" => trace[j].error = e.message
    /\ outcome.kind = "threw"
    /\ outcome.err = e

(* C6 witness: the body of the step at the bottom of a wrapped workflow   *)
(* threw an Error and the run has settled.                                *)
C6_Witness ==
  /\ Settled
  /\ req.wrapped
  /\ req.target < MaxDepth
  /\ thrown # <<>>
  /\ thrown[1].level = MaxDepth
  /\ thrown[1].fn = "body"
  /\ thrown[1].err.kind = "Error"

(* C7: a run that failed leaves a RunRecord of that run whose status is   *)
(* 'failure', next to the error it rethrows.                              *)
C7_FailureRunRecord ==
  outcome.kind = "threw" =>
    outcome.record = RunRecord(req.runId, UnitName(req.target), "failure")

(* C8: the sink of a run is closed exactly once, on success and on        *)
(* failure; the root span_end is the last event written before the close, *)
(* and the sink is closed by the time run returns or rethrows (and not    *)
(* before).                                                               *)
C8_SinkClosedOnce ==
  /\ Len(closes) <= 1
  /\ Settled <=> Len(closes) = 1
  /\ \A k \in DOMAIN closes :
       /\ closes[k] \in EndsOf(Root)
       /\ Cardinality(EndsOf(Root)) = 1

(* C8 witness: a run that failed, with its sink closed after the last     *)
(* event.                                                                 *)
C8_Witness ==
  /\ outcome.kind = "threw"
  /\ units[Root].body = 1
  /\ closes = <<Len(trace)>>

(* C9: on a run that returned, the root span_start is the first event and *)
(* the root span_end, without error, the last; the output is the schema's *)
(* parse of what the target returned; the record has status 'success',    *)
(* the target's name and the run id that every event of the run carries.  *)
C9_SuccessfulRunShape ==
  outcome.kind = "returned" =>
    /\ trace[1] = SpanStart(req.runId, Root, NoSpan, UnitName(req.target))
    /\ trace[Len(trace)] = SpanEnd(req.runId, Root, NoSpan, UnitName(req.target),
                                   Undefined)
    /\ StartsOf(Root) = {1}
    /\ EndsOf(Root) = {Len(trace)}
    /\ units[Root].bodyRet.kind = "value"
    /\ OutputOk(Root)
    /\ outcome.output =
         safeParse(OutputSchema(req.target), units[Root].bodyRet.val).data
    /\ outcome.record = RunRecord(req.runId, UnitName(req.target), "success")
    /\ \A i \in DOMAIN trace : trace[i].runId = outcome.record.runId

(* C9 witness: a run returned an output that the output schema had to     *)
(* normalise, after its target ran nested work.                           *)
C9_Witness ==
  /\ outcome.kind = "returned"
  /\ units[Root].bodyRet.val = "coercible"
  /\ Len(trace) > 2

(* C10: when the top-level input violates the target's input schema, the  *)
(* target is never invoked and no child span is started: the whole trace  *)
(* is the root span_start, one validation_error with direction 'input' on *)
(* the root span and the root span_end with the error message; the sink   *)
(* is closed and a ValidationError is rethrown.                           *)
C10_TopLevelInputFailsFast ==
  req.input = "invalid" =>
    /\ ~InputOk(Root)
    /\ units[Root].body = 0
    /\ DOMAIN units = {Root}
    /\ SpanIds = {Root}
    /\ \A k \in DOMAIN stack : stack[k].fn = "run"
    /\ Settled =>
         /\ trace = << SpanStart(req.runId, Root, NoSpan, UnitName(req.target)),
                       ValidationErrorEvent(req.runId, Root, "input", InputIssues(Root)),
                       SpanEnd(req.runId, Root, NoSpan, UnitName(req.target),
                               "input validation failed") >>
         /\ closes = <<3>>
         /\ outcome.kind = "threw"
         /\ outcome.err.kind = "ValidationError"
         /\ outcome.err.message = "input validation failed"
         /\ outcome.err.issues = InputIssues(Root)

(* C10 witness: a run given an invalid top-level input has settled.       *)
C10_Witness ==
  /\ req.input = "invalid"
  /\ outcome.kind = "threw"


(* ================================================================== *)
(* The generation client (packages/llm): ProgrammableLLMClient          *)
(* ================================================================== *)

(* ------------------------------------------------------------------ *)
(* JavaScript values, as far as the cache key reads them: strings,      *)
(* numbers, undefined, arrays, and objects as their entries in          *)
(* insertion order (what Object.entries returns).                       *)
(* ------------------------------------------------------------------ *)

Str(s) == <<"string", s>>
Num(n) == <<"number", n>>
Undef == <<"undefined">>
Arr(items) == <<"array", items>>
Obj(entries) == <<"object", entries>>

IsPrimitive(value) == value[1] \in {"string", "number", "undefined"}

(* The property names of the model, in the order of the default collation. *)
(* Names in one class are what localeCompare reports as equal: the         *)
(* precomposed letter U+00E9 and its decomposition U+0065 U+0301 are       *)
(* canonically equivalent, and localeCompare returns 0 for them.           *)
CollationOrder ==
  << {"content"}, {"description"}, {"U+00E9", "U+0065 U+0301"}, {"maxTokens"},
     {"messages"}, {"model"}, {"name"}, {"provider"}, {"role"}, {"schema"},
     {"temperature"}, {"tools"} >>

CollationRank(key) == CHOOSE i \in DOMAIN CollationOrder : key \in CollationOrder[i]

(* a.localeCompare(b): negative, zero or positive.                        *)
localeCompare(a, b) == CollationRank(a) - CollationRank(b)

(* entries.sort(([a], [b]) => a.localeCompare(b)): Array.prototype.sort is *)
(* stable, so entries whose keys compare equal keep their insertion order. *)
RECURSIVE sortEntries(_)
sortEntries(entries) ==
  IF entries = <<>> THEN <<>>
  ELSE LET sorted == sortEntries(SubSeq(entries, 1, Len(entries) - 1))
           e == entries[Len(entries)]
           n == Cardinality({i \in DOMAIN sorted : localeCompare(sorted[i][1], e[1]) <= 0})
       IN SubSeq(sorted, 1, n) \o <<e>> \o SubSeq(sorted, n + 1, Len(sorted))

(* JSON.stringify of a primitive, as the pieces of the resulting text;    *)
(* undefined is what a template literal renders for it.                   *)
JSONstringify(value) ==
  IF value[1] = "string" THEN <<"\"", value[2], "\"">>
  ELSE IF value[1] = "number" THEN <<ToString(value[2])>>
  ELSE <<"undefined">>

(* parts.join(","): the parts with a comma between them.                  *)
RECURSIVE join(_)
join(parts) ==
  IF parts = <<>> THEN <<>>
  ELSE IF Len(parts) = 1 THEN parts[1]
  ELSE parts[1] \o <<",">> \o join(SubSeq(parts, 2, Len(parts)))

(* stableStringify(value): the text, as the sequence of its pieces.       *)
RECURSIVE stableStringify(_)
stableStringify(value) ==
  IF IsPrimitive(value) THEN JSONstringify(value)
  ELSE IF value[1] = "array"
  THEN <<"[">>
       \o join([i \in DOMAIN value[2] |->
                  \* Array.prototype.join renders an undefined element as ""
                  IF value[2][i] = Undef THEN <<>> ELSE stableStringify(value[2][i])])
       \o <<"]">>
  ELSE LET entries == sortEntries(value[2])
       IN <<"{">>
          \o join([i \in DOMAIN entries |->
                     JSONstringify(Str(entries[i][1])) \o <<":">>
                     \o stableStringify(entries[i][2])])
          \o <<"}">>

(* The schemas a request can carry: none, an object schema, a string      *)
(* schema.  A zod schema has no toString of its own, so                   *)
(* args.schema?.toString?.() is Object.prototype.toString's text for      *)
(* every schema, and undefined without one.                               *)
Schemas == {"none", "object", "string"}

schemaToString(schema) ==
  IF schema = "none" THEN Undef ELSE Str("[object Object]")

(* LLMGenerateArgs *)
LLMGenerateArgs(model, messages, schema, temperature, maxTokens, tools) ==
  [model |-> model, messages |-> messages, schema |-> schema,
   temperature |-> temperature, maxTokens |-> maxTokens, tools |-> tools]

(* Variant: temperature and tools enter the key as they were given.       *)
keyObject_asGiven(args) ==
  Obj(<<
    <<"provider", Str("programmable")>>,
    <<"model", args.model>>,
    <<"messages", args.messages>>,
    <<"schema", schemaToString(args.schema)>>,
    <<"temperature", args.temperature>>,
    <<"maxTokens", args.maxTokens>>,
    <<"tools", args.tools>> >>)

(* The object generate derives the cache key from: the request's fields, *)
(* with temperature ?? 0 and tools ?? [].                                 *)
keyObject(args) ==
  Obj(<<
    <<"provider", Str("programmable")>>,
    <<"model", args.model>>,
    <<"messages", args.messages>>,
    <<"schema", schemaToString(args.schema)>>,
    <<"temperature", IF args.temperature = Undef THEN Num(0) ELSE args.temperature>>,
    <<"maxTokens", args.maxTokens>>,
    <<"tools", IF args.tools = Undef THEN Arr(<<>>) ELSE args.tools>> >>)

(* const cacheKey = stableStringify({...}) *)
cacheKey(args) == stableStringify(keyObject(args))

(* Structural equality of two values: equal primitives, arrays equal      *)
(* element by element in order, objects with the same keys and equal      *)
(* values under each key, in whatever order the keys are listed.          *)
RECURSIVE StructurallyEqual(_, _)
StructurallyEqual(a, b) ==
  IF a[1] # b[1] THEN FALSE
  ELSE IF IsPrimitive(a) THEN a = b
  ELSE IF a[1] = "array"
  THEN /\ Len(a[2]) = Len(b[2])
       /\ \A i \in DOMAIN a[2] : StructurallyEqual(a[2][i], b[2][i])
  ELSE /\ Len(a[2]) = Len(b[2])
       /\ \A i \in DOMAIN a[2] : \E j \in DOMAIN b[2] :
             /\ a[2][i][1] = b[2][j][1]
             /\ StructurallyEqual(a[2][i][2], b[2][j][2])

(* Two requests are the same logical request: the same schema, and        *)
(* structurally equal fields once the defaults are filled in.             *)
SameLogicalRequest(a, b) ==
  a.schema = b.schema /\ StructurallyEqual(keyObject(a), keyObject(b))


(* ------------------------------------------------------------------ *)
(* Responses, schema parsing, results and the llm events                *)
(* ------------------------------------------------------------------ *)

(* The texts the responder can answer with: a JSON object, words that are *)
(* not JSON, and a JSON number.                                           *)
RawTexts == {"{\"summary\":\"s\"}", "plain words", "42"}

(* JSON.parse(raw): the decoded value, or a SyntaxError.                  *)
JSONparse(raw) ==
  IF raw = "{\"summary\":\"s\"}"
  THEN [threw |-> FALSE, value |-> Obj(<< <<"summary", Str("s")>> >>)]
  ELSE IF raw = "42"
  THEN [threw |-> FALSE, value |-> Num(42)]
  ELSE [threw |-> TRUE, value |-> Undef]

(* schema.safeParse(candidate) for the schemas of a request: the object   *)
(* schema accepts objects, the string schema strings.                     *)
schemaSafeParse(schema, candidate) ==
  IF candidate[1] = schema
  THEN [success |-> TRUE, data |-> candidate, issues |-> NoIssues]
  ELSE [success |-> FALSE, data |-> Undef, issues |-> <<schema, candidate[1]>>]

(* Variant: a candidate the schema rejects is passed on as it is.         *)
parseWithSchema_passthrough(schema, raw, oid) ==
  LET decoded == JSONparse(raw)
      candidate == IF decoded.threw THEN Str(raw) ELSE decoded.value
  IN [threw |-> FALSE, err |-> NoErr, data |-> candidate]

(* parseWithSchema(schema, raw): JSON.parse with the raw text as the      *)
(* fallback, then safeParse; the data, or a thrown ValidationError.  oid  *)
(* is the identity of the error object.                                   *)
parseWithSchema(schema, raw, oid) ==
  LET decoded == JSONparse(raw)
      candidate == IF decoded.threw THEN Str(raw) ELSE decoded.value
      result == schemaSafeParse(schema, candidate)
  IN IF ~result.success
     THEN [threw |-> TRUE,
           err |-> ValidationError(result.issues, "LLM output failed schema validation", oid),
           data |-> Undef]
     ELSE [threw |-> FALSE, err |-> NoErr, data |-> result.data]

(* LLMGenerateResult: raw and parsed (tokens and cost left out).          *)
LLMGenerateResult(raw, parsed) == [raw |-> raw, parsed |-> parsed]

NoResult == LLMGenerateResult(Undefined, Undef)

(* The llm_call event of the try block (raw, parsed) and of the catch     *)
(* block (error).                                                         *)
LlmCallEvent(runId, spanId, model, raw, parsed, error) ==
  [type |-> "llm_call", runId |-> runId, spanId |-> spanId, model |-> model,
   raw |-> raw, parsed |-> parsed, error |-> error]

(* Variant: the event is written on the parent of the handle's span.      *)
event_onParent(t, name) ==
  [type |-> "event", runId |-> t.runId, spanId |-> t.parentSpanId, name |-> name]

(* Trace.artifact(name, data): a named artifact on the handle's span.     *)
artifact(t, name) ==
  [type |-> "artifact", runId |-> t.runId, spanId |-> t.spanId, name |-> name]

(* Trace.event(name): a named event on the handle's span.                 *)
event(t, name) ==
  [type |-> "event", runId |-> t.runId, spanId |-> t.spanId, name |-> name]

(* ------------------------------------------------------------------ *)
(* The cache                                                            *)
(* ------------------------------------------------------------------ *)

(* What cache.get / cache.set can reject with.                            *)
CacheError ==
  [kind |-> "Error", oid |-> <<"cache", 1>>, message |-> "EACCES",
   issues |-> NoIssues, text |-> "Error: EACCES"]

(* maybeGet(cache, key): undefined without a cache, else cache.get(key).  *)
maybeGet(c, key) ==
  IF ~c.configured THEN NoResult
  ELSE IF key \in DOMAIN c.entries THEN c.entries[key]
  ELSE NoResult

(* Variant: nothing is stored.                                            *)
maybeSet_dropped(c, key, value) == c

(* maybeSet(cache, key, value): nothing without a cache, else             *)
(* cache.set(key, value).                                                 *)
maybeSet(c, key, value) ==
  IF ~c.configured THEN c
  ELSE [c EXCEPT !.entries = [k \in DOMAIN c.entries \cup {key} |->
                                IF k = key THEN value ELSE c.entries[k]]]

(* The value null as an entry of a cache: Cache.set takes any value, and  *)
(* the cache is the caller's.                                             *)
StoredNull == LLMGenerateResult("null", Undef)

(* if (cached): the truthiness of what the cache gave.                    *)
Truthy(cached) == cached \notin {NoResult, StoredNull}


(* ------------------------------------------------------------------ *)
(* ProgrammableLLMClient.generate                                       *)
(* ------------------------------------------------------------------ *)

(* The generate calls of one behaviour; they may overlap at their awaits. *)
Calls == {1, 2}

(* A chat message with its fields written in either order.                *)
UserMessage == Obj(<< <<"role", Str("user")>>, <<"content", Str("hi")>> >>)
UserMessageReordered == Obj(<< <<"content", Str("hi")>>, <<"role", Str("user")>> >>)

(* The requests: one with an object schema, the same logical request      *)
(* written differently (defaults spelled out, message fields reordered),  *)
(* the same with only temperature 0 or only tools [] spelled out, the     *)
(* same with a string schema, and one without a schema.                   *)
Requests ==
  { LLMGenerateArgs(Str("m"), Arr(<<UserMessage>>), "object", Undef, Undef, Undef),
    LLMGenerateArgs(Str("m"), Arr(<<UserMessage>>), "object", Num(0), Undef, Undef),
    LLMGenerateArgs(Str("m"), Arr(<<UserMessage>>), "object", Undef, Undef, Arr(<<>>)),
    LLMGenerateArgs(Str("m"), Arr(<<UserMessageReordered>>), "object", Num(0), Undef,
                    Arr(<<>>)),
    LLMGenerateArgs(Str("m"), Arr(<<UserMessage>>), "string", Undef, Undef, Undef),
    LLMGenerateArgs(Str("m"), Arr(<<UserMessage>>), "none", Undef, Undef, Undef) }

(* The context a call is made with: the run's id and the caller's span.   *)
GenCtx(c) == TraceHandle(1, c, NoSpan)

(* One generate call: its position, arguments and locals; got is what the *)
(* cache lookup gave, invoked how often it invoked the responder, answer  *)
(* how the responder settled, after the calls that had settled when this  *)
(* one was made.                                                          *)
Gen(pc, args, key, got, invoked, answer, result, settled, after) ==
  [pc |-> pc, args |-> args, key |-> key, got |-> got, invoked |-> invoked,
   answer |-> answer, result |-> result, settled |-> settled, after |-> after]

NoArgs == LLMGenerateArgs(Undef, Undef, "none", Undef, Undef, Undef)

(* How a generate call settled: pending, fulfilled with a result, or      *)
(* rejected with an error.                                                *)
GenPending == [kind |-> "none", val |-> NoResult, err |-> NoErr]
GenReturned(result) == [kind |-> "value", val |-> result, err |-> NoErr]
GenThrew(e) == [kind |-> "throw", val |-> NoResult, err |-> e]

(* How the responder settled: pending, fulfilled with a raw text, or      *)
(* rejected with an error.                                                *)
NoAnswer == [kind |-> "none", raw |-> Undefined, err |-> NoErr]
Answered(raw) == [kind |-> "value", raw |-> raw, err |-> NoErr]
AnswerThrew(e) == [kind |-> "throw", raw |-> Undefined, err |-> e]

IdleGen == Gen("idle", NoArgs, <<>>, NoResult, 0, NoAnswer, NoResult, GenPending, {})

(* The orchestrator at rest.                                              *)
RunIdle ==
  /\ closes = <<>>
  /\ uuids = 0
  /\ stack = <<>>
  /\ outcome = Outcome("idle", Undefined, NoRecord, NoErr)
  /\ req = [target |-> 0, wrapped |-> TRUE, input |-> Undefined, runId |-> 0,
            rootSpanId |-> NoSpan]
  /\ opened = <<>>
  /\ units = <<>>
  /\ thrown = <<>>
  /\ runtime = Runtime(Undefined, CHOOSE options \in Options : options.policies = Undefined)
  /\ parked = RunCall(stack, NoRet, outcome, req)

(* A context without a cache, with an empty one, or with one in which its *)
(* owner has stored null under the key of a request; no call made.        *)
GenInit ==
  /\ trace = <<>>
  /\ ret = NoRet
  /\ RunIdle
  /\ cache \in {[configured |-> b, entries |-> <<>>] : b \in BOOLEAN}
              \cup {[configured |-> TRUE, entries |-> [k \in {cacheKey(r)} |-> StoredNull]] :
                      r \in Requests}
  /\ gens = [c \in Calls |-> IdleGen]
  /\ responded = <<>>
  /\ registry = <<>>
  /\ tcall = <<>>
  /\ tlog = <<>>
  /\ kin = <<>>
  /\ kout = <<>>
  /\ espec = <<>>
  /\ ev = <<>>
  /\ elog = <<>>

(* generate(ctx, args) up to the first await: the cache key is derived    *)
(* and the lookup issued.                                                 *)
generate_start(c) ==
  /\ gens[c].pc = "idle"
  /\ \E args \in Requests :
       gens' = [gens EXCEPT ![c] = Gen("get", args, cacheKey(args), NoResult, 0,
                                       NoAnswer, NoResult, GenPending,
                                       {d \in Calls : gens[d].pc = "done"})]
  /\ UNCHANGED <<trace, cache, responded>>

(* Variant: the lookup's answer is ignored.                               *)
generate_cached_ignored(c) ==
  /\ gens[c].pc = "get"
  /\ LET g == gens[c]
         cached == maybeGet(cache, g.key)
     IN \/ /\ cache.configured
           /\ gens' = [gens EXCEPT ![c].pc = "done", ![c].settled = GenThrew(CacheError)]
           /\ UNCHANGED responded
        \/ /\ gens' = [gens EXCEPT ![c].pc = "respond", ![c].got = cached,
                                   ![c].invoked = g.invoked + 1]
           /\ responded' = Append(responded, [call |-> c, key |-> g.key])
  /\ UNCHANGED <<trace, cache>>

(* The lookup settled.  Rejected: generate rejects with that error.  A    *)
(* truthy entry: it is returned as it is.  Otherwise the responder is     *)
(* invoked.                                                               *)
generate_cached(c) ==
  /\ gens[c].pc = "get"
  /\ LET g == gens[c]
         cached == maybeGet(cache, g.key)
     IN \/ /\ cache.configured
           /\ gens' = [gens EXCEPT ![c].pc = "done", ![c].settled = GenThrew(CacheError)]
           /\ UNCHANGED responded
        \/ /\ Truthy(cached)
           /\ gens' = [gens EXCEPT ![c].pc = "done", ![c].got = cached,
                                   ![c].settled = GenReturned(cached)]
           /\ UNCHANGED responded
        \/ /\ ~Truthy(cached)
           /\ gens' = [gens EXCEPT ![c].pc = "respond", ![c].got = cached,
                                   ![c].invoked = g.invoked + 1]
           /\ responded' = Append(responded, [call |-> c, key |-> g.key])
  /\ UNCHANGED <<trace, cache>>

(* Variant: the error is wrapped in a new Error with the same message.    *)
generate_catch_wrapped(c, answer, err) ==
  /\ trace' = emit(emit(trace, LlmCallEvent(GenCtx(c).runId, GenCtx(c).spanId,
                                            gens[c].args.model, Undefined, Undef,
                                            ErrorText(err))),
                   event(GenCtx(c), "llm_call_complete"))
  /\ gens' = [gens EXCEPT ![c].pc = "done", ![c].answer = answer,
                          ![c].settled = GenThrew([err EXCEPT !.oid = <<"wrapped", 1>>])]

(* The catch and finally blocks, entered with the responder's answer at   *)
(* hand: an llm_call event with the error's text, the llm_call_complete   *)
(* event, the error rethrown.                                             *)
generate_catch(c, answer, err) ==
  /\ trace' = emit(emit(trace, LlmCallEvent(GenCtx(c).runId, GenCtx(c).spanId,
                                            gens[c].args.model, Undefined, Undef,
                                            ErrorText(err))),
                   event(GenCtx(c), "llm_call_complete"))
  /\ gens' = [gens EXCEPT ![c].pc = "done", ![c].answer = answer,
                          ![c].settled = GenThrew(err)]

(* Variant: the raw answer is stored before it is parsed.                 *)
generate_responded_storedFirst(c) ==
  /\ gens[c].pc = "respond"
  /\ LET g == gens[c] IN
       \/ /\ \E e \in Throwables : generate_catch(c, AnswerThrew(e), e)
          /\ UNCHANGED cache
       \/ \E raw \in RawTexts :
            LET p == IF g.args.schema # "none"
                     THEN parseWithSchema(g.args.schema, raw, Len(trace) + 1)
                     ELSE [threw |-> FALSE, err |-> NoErr, data |-> Undef]
                result == LLMGenerateResult(raw, p.data)
            IN IF p.threw
               THEN /\ generate_catch(c, Answered(raw), p.err)
                    /\ cache' = maybeSet(cache, g.key, LLMGenerateResult(raw, Undef))
               ELSE /\ trace' = emit(trace, LlmCallEvent(GenCtx(c).runId, GenCtx(c).spanId,
                                                          g.args.model, raw, p.data,
                                                          Undefined))
                    /\ gens' = [gens EXCEPT ![c].pc = "set", ![c].answer = Answered(raw),
                                            ![c].result = result]
                    /\ UNCHANGED cache
  /\ UNCHANGED responded

(* The responder settled.  Rejected: to the catch block.  Fulfilled: the  *)
(* raw text is parsed when the request has a schema, the llm_call event   *)
(* written and the result handed to the cache.                            *)
generate_responded(c) ==
  /\ gens[c].pc = "respond"
  /\ LET g == gens[c] IN
       \/ \E e \in Throwables :
            generate_catch(c, AnswerThrew(e), e)
       \/ \E raw \in RawTexts :
            LET p == IF g.args.schema # "none"
                     THEN parseWithSchema(g.args.schema, raw, Len(trace) + 1)
                     ELSE [threw |-> FALSE, err |-> NoErr, data |-> Undef]
                result == LLMGenerateResult(raw, p.data)
            IN IF p.threw
               THEN generate_catch(c, Answered(raw), p.err)
               ELSE /\ trace' = emit(trace, LlmCallEvent(GenCtx(c).runId, GenCtx(c).spanId,
                                                          g.args.model, raw, p.data,
                                                          Undefined))
                    /\ gens' = [gens EXCEPT ![c].pc = "set", ![c].answer = Answered(raw),
                                            ![c].result = result]
  /\ UNCHANGED <<cache, responded>>

(* maybeSet settled.  Fulfilled: the entry is stored (when there is a     *)
(* cache), the finally block writes llm_call_complete, the result is      *)
(* returned.  Rejected: to the catch block, after the llm_call event of   *)
(* the try block.                                                         *)
generate_stored(c) ==
  /\ gens[c].pc = "set"
  /\ LET g == gens[c] IN
       \/ /\ cache' = maybeSet(cache, g.key, g.result)
          /\ trace' = emit(trace, event(GenCtx(c), "llm_call_complete"))
          /\ gens' = [gens EXCEPT ![c].pc = "done", ![c].settled = GenReturned(g.result)]
       \/ /\ cache.configured
          /\ generate_catch(c, g.answer, CacheError)
          /\ UNCHANGED cache
  /\ UNCHANGED responded

GenNext ==
  \/ \E c \in Calls : generate_start(c) /\ UNCHANGED <<ret, runVars, toolVars, keyVars, evalVars>>
  \/ \E c \in Calls : generate_cached(c) /\ UNCHANGED <<ret, runVars, toolVars, keyVars, evalVars>>
  \/ \E c \in Calls : generate_responded(c) /\ UNCHANGED <<ret, runVars, toolVars, keyVars, evalVars>>
  \/ \E c \in Calls : generate_stored(c) /\ UNCHANGED <<ret, runVars, toolVars, keyVars, evalVars>>

GenSpec == GenInit /\ [][GenNext]_vars


(* ------------------------------------------------------------------ *)
(* Properties of generate                                               *)
(* ------------------------------------------------------------------ *)

GenDone(c) == gens[c].pc = "done"

(* The llm_call events written for call c.                                *)
LlmCalls(c) ==
  {i \in DOMAIN trace : trace[i].type = "llm_call" /\ trace[i].spanId = GenCtx(c).spanId}

(* The responder invocations made by call c.                              *)
Responded(c) == {i \in DOMAIN responded : responded[i].call = c}

(* C11: a generate call whose cache lookup gave an entry returns that     *)
(* entry unchanged, does not invoke the responder and writes no llm_call  *)
(* event.                                                                 *)
C11_CacheHitReturnsCached ==
  \A c \in Calls :
    Truthy(gens[c].got) =>
      /\ GenDone(c)
      /\ gens[c].settled = GenReturned(gens[c].got)
      /\ gens[c].invoked = 0
      /\ Responded(c) = {}
      /\ LlmCalls(c) = {}

(* A call that hit the entry another call stored.                         *)
C11_Witness ==
  \E c \in Calls, d \in Calls :
    /\ c # d
    /\ Truthy(gens[c].got)
    /\ gens[c].got = gens[d].result
    /\ gens[c].settled.kind = "value"

(* C12 as stated: with a cache, two settled calls with the same logical   *)
(* request have invoked the responder exactly once between them.          *)
C12_ResponderInvokedOnce ==
  (/\ cache.configured
   /\ \A c \in Calls : GenDone(c)
   /\ SameLogicalRequest(gens[1].args, gens[2].args))
  => Len(responded) = 1

(* C12 amended: with a cache, when a call returned a freshly generated    *)
(* result before a second call with the same cache key was made, the      *)
(* responder has been invoked exactly once between them.                  *)
C12_SequentialAfterSuccessOnce ==
  \A c \in Calls, d \in Calls :
    (/\ cache.configured
     /\ c # d
     /\ d \in gens[c].after
     /\ gens[d].settled.kind = "value"
     /\ gens[c].key = gens[d].key
     /\ GenDone(c))
    => /\ Len(responded) = 1
       /\ Responded(d) = {1}

(* The second call returned the first call's result from the cache.       *)
C12_Witness ==
  \E c \in Calls, d \in Calls :
    /\ cache.configured
    /\ c # d
    /\ d \in gens[c].after
    /\ gens[d].settled.kind = "value"
    /\ SameLogicalRequest(gens[c].args, gens[d].args)
    /\ gens[c].args # gens[d].args
    /\ gens[c].settled = GenReturned(gens[d].result)


(* C14: when the responder throws e, generate writes one llm_call event   *)
(* with e's message (its text when it has none) and rejects with e        *)
(* itself; no call invokes the responder more than once.                  *)
C14_BackendErrorTracedAndRethrown ==
  \A c \in Calls :
    /\ gens[c].invoked <= 1
    /\ Cardinality(Responded(c)) = gens[c].invoked
    /\ gens[c].answer.kind = "throw" =>
         /\ GenDone(c)
         /\ gens[c].settled = GenThrew(gens[c].answer.err)
         /\ gens[c].invoked = 1
         /\ Cardinality(LlmCalls(c)) = 1
         /\ \A i \in LlmCalls(c) :
              /\ trace[i].error = ErrorText(gens[c].answer.err)
              /\ trace[i].raw = Undefined
              /\ i < Len(trace)

(* Both calls were rejected by the responder with Error objects that      *)
(* carry the same message.                                                *)
C14_Witness ==
  /\ \A c \in Calls : gens[c].answer.kind = "throw" /\ gens[c].answer.err.kind = "Error"
  /\ gens[1].answer.err # gens[2].answer.err
  /\ gens[1].settled.kind = "throw"

(* The raw text satisfies the schema: decoded as JSON, or taken as a      *)
(* string when it is not JSON, the schema accepts it.                     *)
RawSatisfies(schema, raw) ==
  schemaSafeParse(schema, IF JSONparse(raw).threw THEN Str(raw)
                          ELSE JSONparse(raw).value).success

(* C15: when the request has a schema and the responder's raw text does   *)
(* not satisfy it, generate rejects with a ValidationError; a result      *)
(* returned for generated text carries parsed data the schema accepts.    *)
C15_InvalidOutputIsValidationError ==
  \A c \in Calls :
    (gens[c].answer.kind = "value" /\ gens[c].args.schema # "none") =>
      /\ ~RawSatisfies(gens[c].args.schema, gens[c].answer.raw) =>
           /\ GenDone(c)
           /\ gens[c].settled.kind = "throw"
           /\ gens[c].settled.err.kind = "ValidationError"
           /\ gens[c].settled.err.message = "LLM output failed schema validation"
           /\ gens[c].result = NoResult
      /\ gens[c].settled.kind = "value" =>
           /\ RawSatisfies(gens[c].args.schema, gens[c].answer.raw)
           /\ gens[c].settled.val.raw = gens[c].answer.raw
           /\ schemaSafeParse(gens[c].args.schema, gens[c].settled.val.parsed).success

(* A JSON number was answered to a request with a string schema.          *)
C15_Witness ==
  \E c \in Calls :
    /\ gens[c].args.schema = "string"
    /\ gens[c].answer = Answered("42")
    /\ gens[c].settled.kind = "throw"

(* The validation_error events written on the span of call c.             *)
ValidationEvents(c) ==
  {i \in DOMAIN trace :
     trace[i].type = "validation_error" /\ trace[i].spanId = GenCtx(c).spanId}

(* C16: a ValidationError raised by generate is preceded in the trace by  *)
(* exactly one validation_error event on the span of the call.            *)
C16_ValidationErrorTraced ==
  \A c \in Calls :
    (gens[c].settled.kind = "throw" /\ gens[c].settled.err.kind = "ValidationError")
    => Cardinality(ValidationEvents(c)) = 1

(* ================================================================== *)
(* Cache-key derivation on its own                                      *)
(* ================================================================== *)

(* The orderings of a list of entries or elements.                        *)
Orderings(seq) ==
  {s \in [DOMAIN seq -> {seq[i] : i \in DOMAIN seq}] :
     \A i \in DOMAIN seq : \E j \in DOMAIN seq : s[j] = seq[i]}

(* Two chat messages and a tool descriptor, as lists of fields.  The tool *)
(* descriptor has two property names that are canonically equivalent.     *)
SystemFields == << <<"role", Str("system")>>, <<"content", Str("be brief")>> >>
UserFields == << <<"role", Str("user")>>, <<"content", Str("hi")>> >>
ToolFields == << <<"name", Str("lookup")>>, <<"U+00E9", Num(1)>>, <<"U+0065 U+0301", Num(2)>> >>

(* Requests with the same fields throughout: the fields of each object in *)
(* every order, the two messages in either order.                         *)
KeyRequests ==
  { LLMGenerateArgs(Str("m"), Arr(ms), "none", Undef, Undef, Arr(<<Obj(t)>>)) :
      ms \in UNION { Orderings(<<Obj(a), Obj(b)>>) :
                       a \in Orderings(SystemFields), b \in Orderings(UserFields) },
      t \in Orderings(ToolFields) }

(* A pair of requests whose keys are to be derived.                       *)
KeyInit ==
  /\ trace = <<>>
  /\ ret = NoRet
  /\ RunIdle
  /\ cache = <<>>
  /\ gens = <<>>
  /\ responded = <<>>
  /\ registry = <<>>
  /\ tcall = <<>>
  /\ tlog = <<>>
  /\ kin \in KeyRequests \X KeyRequests
  /\ kout = <<>>
  /\ espec = <<>>
  /\ ev = <<>>
  /\ elog = <<>>

(* The first statement of generate, for each request of the pair.         *)
derive_cacheKey ==
  /\ kout = <<>>
  /\ kout' = <<cacheKey(kin[1]), cacheKey(kin[2])>>
  /\ UNCHANGED <<trace, ret, runVars, genVars, toolVars, kin, evalVars>>

KeyNext == derive_cacheKey

KeySpec == KeyInit /\ [][KeyNext]_vars

(* C13: requests that are structurally equal up to the order in which     *)
(* object fields are listed derive the same cache key, and requests whose *)
(* arrays list their elements in a different order derive different keys. *)
C13_KeyIgnoresFieldOrder ==
  kout # <<>> =>
    IF SameLogicalRequest(kin[1], kin[2])
    THEN kout[1] = kout[2]
    ELSE kout[1] # kout[2]


(* ================================================================== *)
(* The tool registry: InMemoryToolRegistry                              *)
(* ================================================================== *)

(* Bound: the operations on the registry (register and call) in one      *)
(* behaviour.                                                             *)
MaxToolOps == 4

ToolNames == {"search", "fetch"}

(* interface Tool: name, input and output schema, invoke; id stands for   *)
(* the identity of the tool object.                                       *)
Tool(name, id) ==
  [name |-> name, id |-> id, input |-> <<<<"tool", id>>, "input">>,
   output |-> <<<<"tool", id>>, "output">>]

NoTool == Tool(Undefined, 0)

(* class ToolError, thrown for call number k.                             *)
ToolError(name, k) ==
  [kind |-> "ToolError", oid |-> <<"tool", k>>, message |-> "Tool not found: " \o name,
   issues |-> NoIssues, text |-> "ToolError"]

(* The tool_call event of the try block (output) and of the catch block   *)
(* (error).                                                               *)
ToolCallEvent(runId, spanId, tool, input, output, error) ==
  [type |-> "tool_call", runId |-> runId, spanId |-> spanId, tool |-> tool,
   input |-> input, output |-> output, error |-> error]

(* The context call number k is made with.                                *)
ToolCtx(k) == TraceHandle(1, k, NoSpan)

(* Variant: an unknown name falls back to a registered tool.              *)
toolsGet_fallback(reg, name) ==
  IF name \in DOMAIN reg THEN reg[name]
  ELSE IF DOMAIN reg # {} THEN reg[CHOOSE n \in DOMAIN reg : TRUE]
  ELSE NoTool

(* this.tools.get(name): the tool, or undefined.                          *)
toolsGet(reg, name) == IF name \in DOMAIN reg THEN reg[name] ELSE NoTool

(* Variant: a name that is taken keeps its tool.                          *)
toolsSet_keepFirst(reg, name, tool) ==
  [n \in DOMAIN reg \cup {name} |-> IF n \in DOMAIN reg THEN reg[n] ELSE tool]

(* this.tools.set(name, tool) *)
toolsSet(reg, name, tool) ==
  [n \in DOMAIN reg \cup {name} |-> IF n = name THEN tool ELSE reg[n]]

(* One tools.call: its position, arguments and locals; at is the number   *)
(* of register calls made before it, invoked the tools it invoked, in     *)
(* order, with the input it gave them.                                    *)
ToolCall(pc, name, input, tool, at, invoked, answer, settled) ==
  [pc |-> pc, name |-> name, input |-> input, tool |-> tool, at |-> at,
   invoked |-> invoked, answer |-> answer, settled |-> settled]

(* An empty registry, no call made.                                       *)
ToolInit ==
  /\ trace = <<>>
  /\ ret = NoRet
  /\ RunIdle
  /\ cache = <<>>
  /\ gens = <<>>
  /\ responded = <<>>
  /\ registry = <<>>
  /\ tcall = <<>>
  /\ tlog = <<>>
  /\ kin = <<>>
  /\ kout = <<>>
  /\ espec = <<>>
  /\ ev = <<>>
  /\ elog = <<>>

(* register(tool): the tool is stored under its name.                     *)
register ==
  /\ Len(tlog) + Len(tcall) < MaxToolOps
  /\ \E name \in ToolNames :
       LET tool == Tool(name, Len(tlog) + 1)
       IN /\ registry' = toolsSet(registry, tool.name, tool)
          /\ tlog' = Append(tlog, tool)
  /\ UNCHANGED <<trace, tcall>>

(* call(name, ctx, input) up to the await: look the tool up, throw a      *)
(* ToolError when there is none, validate the input, invoke the tool.     *)
tools_call ==
  /\ Len(tlog) + Len(tcall) < MaxToolOps
  /\ \A k \in DOMAIN tcall : tcall[k].pc = "done"
  /\ \E name \in ToolNames, input \in Values :
       LET k == Len(tcall) + 1
           tool == toolsGet(registry, name)
           v == validateWithZod(tool.input, input, "input", ToolCtx(k), ToolCtx(k).spanId,
                                trace)
       IN IF tool = NoTool
          THEN /\ tcall' = Append(tcall, ToolCall("done", name, input, tool, Len(tlog), <<>>,
                                                  NoRet, Threw(ToolError(name, k))))
               /\ UNCHANGED trace
          ELSE IF v.threw
          THEN /\ trace' = v.trace
               /\ tcall' = Append(tcall, ToolCall("done", name, input, tool, Len(tlog), <<>>,
                                                  NoRet, Threw(v.err)))
          ELSE /\ tcall' = Append(tcall, ToolCall("invoke", name, input, tool, Len(tlog),
                                                  <<[tool |-> tool, input |-> v.data]>>,
                                                  NoRet, NoRet))
               /\ UNCHANGED trace
  /\ UNCHANGED <<registry, tlog>>

(* The catch block: a tool_call event with the input and the error's      *)
(* text, the error rethrown.                                              *)
tools_call_catch(k, tr, answer, err) ==
  /\ trace' = emit(tr, ToolCallEvent(ToolCtx(k).runId, ToolCtx(k).spanId, tcall[k].tool.name,
                                     tcall[k].input, Undefined, ErrorText(err)))
  /\ tcall' = [tcall EXCEPT ![k].pc = "done", ![k].answer = answer,
                            ![k].settled = Threw(err)]

(* Variant: the tool's output is passed on as it came.                    *)
tools_call_settled_unvalidated ==
  \E k \in DOMAIN tcall :
    /\ tcall[k].pc = "invoke"
    /\ \/ \E e \in Throwables : tools_call_catch(k, trace, Threw(e), e)
       \/ \E output \in Values :
            /\ trace' = emit(trace, ToolCallEvent(ToolCtx(k).runId, ToolCtx(k).spanId,
                                                  tcall[k].tool.name, tcall[k].input,
                                                  output, Undefined))
            /\ tcall' = [tcall EXCEPT ![k].pc = "done", ![k].answer = Returned(output),
                                      ![k].settled = Returned(output)]
    /\ UNCHANGED <<registry, tlog>>

(* tool.invoke settled.  Rejected: to the catch block.  Fulfilled: the    *)
(* output is validated, the tool_call event written and the validated     *)
(* output returned; a validation failure goes to the catch block.         *)
tools_call_settled ==
  \E k \in DOMAIN tcall :
    /\ tcall[k].pc = "invoke"
    /\ \/ \E e \in Throwables : tools_call_catch(k, trace, Threw(e), e)
       \/ \E output \in Values :
            LET v == validateWithZod(tcall[k].tool.output, output, "output", ToolCtx(k),
                                     ToolCtx(k).spanId, trace)
            IN IF v.threw
               THEN tools_call_catch(k, v.trace, Returned(output), v.err)
               ELSE /\ trace' = emit(trace, ToolCallEvent(ToolCtx(k).runId, ToolCtx(k).spanId,
                                                          tcall[k].tool.name, tcall[k].input,
                                                          v.data, Undefined))
                    /\ tcall' = [tcall EXCEPT ![k].pc = "done",
                                              ![k].answer = Returned(output),
                                              ![k].settled = Returned(v.data)]
    /\ UNCHANGED <<registry, tlog>>

ToolNext ==
  \/ register /\ UNCHANGED <<ret, runVars, genVars, keyVars, evalVars>>
  \/ tools_call /\ UNCHANGED <<ret, runVars, genVars, keyVars, evalVars>>
  \/ tools_call_settled /\ UNCHANGED <<ret, runVars, genVars, keyVars, evalVars>>

ToolSpec == ToolInit /\ [][ToolNext]_vars


(* ------------------------------------------------------------------ *)
(* A body that uses its context                                         *)
(* ------------------------------------------------------------------ *)

(* What generate(ctx, args) writes before it settles, by how the call    *)
(* goes (index.ts:32-78): nothing on a cache hit; the llm_call event of   *)
(* the try block or of the catch block, then llm_call_complete.           *)
GenerateWays == {"hit", "answered", "failed"}

generate_writes(ctx, way) ==
  LET args == CHOOSE r \in Requests : r.schema = "none"
      raw == CHOOSE t \in RawTexts : TRUE
      e == CHOOSE x \in Throwables : TRUE
  IN CASE way = "hit" -> <<>>
       [] way = "answered" ->
            <<LlmCallEvent(ctx.runId, ctx.spanId, args.model, raw, Undef, Undefined),
              event(ctx, "llm_call_complete")>>
       [] way = "failed" ->
            <<LlmCallEvent(ctx.runId, ctx.spanId, args.model, Undefined, Undef,
                           ErrorText(e)),
              event(ctx, "llm_call_complete")>>

(* What tools.call(name, ctx, input) writes before it settles, by how the *)
(* call goes (part_003:215-244): nothing for an unknown name; the         *)
(* validation_error of an invalid input; the tool_call event of the try   *)
(* block; that of the catch block, after the validation_error of an       *)
(* invalid output when that was thrown.                                   *)
ToolWays == {"unknown", "input_invalid", "returned", "threw", "output_invalid"}

tools_call_writes(ctx, way) ==
  LET name == CHOOSE n \in ToolNames : TRUE
      e == CHOOSE x \in Throwables : TRUE
      vin == validateWithZod(<<name, "input">>, "invalid", "input", ctx, ctx.spanId, <<>>)
      vout == validateWithZod(<<name, "output">>, "invalid", "output", ctx, ctx.spanId, <<>>)
  IN CASE way = "unknown" -> <<>>
       [] way = "input_invalid" -> vin.trace
       [] way = "returned" ->
            <<ToolCallEvent(ctx.runId, ctx.spanId, name, "valid", "valid", Undefined)>>
       [] way = "threw" ->
            <<ToolCallEvent(ctx.runId, ctx.spanId, name, "valid", Undefined, ErrorText(e))>>
       [] way = "output_invalid" ->
            vout.trace \o
            <<ToolCallEvent(ctx.runId, ctx.spanId, name, "valid", Undefined,
                            ErrorText(vout.err))>>

(* The events of the given types written so far on the span of ctx.       *)
WrittenOn(ctx, types) ==
  {i \in DOMAIN trace : trace[i].type \in types /\ trace[i].spanId = ctx.spanId}

(* await ctx.llm.generate(ctx, args) in a body, once per body; the body   *)
(* goes on with the result or the error.                                  *)
body_generate ==
  /\ Running("body", "start")
  /\ WrittenOn(Top.ctx, {"llm_call"}) = {}
  /\ \E way \in GenerateWays \ {"hit"} :
       trace' = trace \o generate_writes(Top.ctx, way)
  /\ UNCHANGED <<closes, uuids, stack, ret, outcome, req, opened, units, thrown>>

(* await ctx.tools.call(name, ctx, input) in a body, once per body.       *)
body_tools_call ==
  /\ Running("body", "start")
  /\ WrittenOn(Top.ctx, {"tool_call", "validation_error"}) = {}
  /\ \E way \in ToolWays \ {"unknown"} :
       trace' = trace \o tools_call_writes(Top.ctx, way)
  /\ UNCHANGED <<closes, uuids, stack, ret, outcome, req, opened, units, thrown>>

(* ctx.trace.artifact(name, data), then ctx.trace.event(name), once per   *)
(* body.                                                                  *)
body_trace_event ==
  /\ Running("body", "start")
  /\ WrittenOn(Top.ctx, {"artifact"}) = {}
  /\ trace' = trace \o <<artifact(Top.ctx, "draft"), event(Top.ctx, "drafted")>>
  /\ UNCHANGED <<closes, uuids, stack, ret, outcome, req, opened, units, thrown>>

(* One run of a unit whose body uses its context and does not delegate.   *)
CallsNext ==
  \/ run_start /\ OthersIdle
  \/ run_validate_input /\ OthersIdle
  \/ run_target_settled /\ OthersIdle
  \/ run_catch /\ OthersIdle
  \/ defineStep_run /\ OthersIdle
  \/ defineWorkflow_run /\ OthersIdle
  \/ body_return /\ OthersIdle
  \/ body_throw /\ OthersIdle
  \/ body_generate /\ OthersIdle
  \/ body_tools_call /\ OthersIdle
  \/ body_trace_event /\ OthersIdle

CallsSpec == Init /\ [][CallsNext]_vars


(* ------------------------------------------------------------------ *)
(* Properties of the tool registry                                      *)
(* ------------------------------------------------------------------ *)

(* The tool registered last under the name among the first n log entries. *)
LatestRegistered(name, n) ==
  LET regs == {i \in 1..n : tlog[i].name = name}
  IN IF regs = {} THEN NoTool
     ELSE tlog[CHOOSE i \in regs : \A j \in regs : j <= i]

(* The events of one type written on the span of call k.                  *)
ToolEvents(k, type) ==
  {i \in DOMAIN trace : trace[i].type = type /\ trace[i].spanId = ToolCtx(k).spanId}

ToolDone(k) == tcall[k].pc = "done"

(* C17: a call of a name nothing was registered under fails with a        *)
(* ToolError, writes no tool_call and no validation_error event and       *)
(* invokes no tool.                                                       *)
C17_UnregisteredToolError ==
  \A k \in DOMAIN tcall :
    LatestRegistered(tcall[k].name, tcall[k].at) = NoTool =>
      /\ ToolDone(k)
      /\ tcall[k].settled.kind = "throw"
      /\ tcall[k].settled.err.kind = "ToolError"
      /\ tcall[k].settled.err.message = "Tool not found: " \o tcall[k].name
      /\ ToolEvents(k, "tool_call") = {}
      /\ ToolEvents(k, "validation_error") = {}
      /\ tcall[k].invoked = <<>>

(* A name was called while only the other name had a tool.                *)
C17_Witness ==
  \E k \in DOMAIN tcall :
    /\ LatestRegistered(tcall[k].name, tcall[k].at) = NoTool
    /\ \E n \in ToolNames : LatestRegistered(n, tcall[k].at) # NoTool
    /\ tcall[k].settled.kind = "throw"

(* C18: the registry holds, under every name, the tool registered last    *)
(* under that name (none when there was no such register call), whatever  *)
(* was registered under other names before or after; a call dispatches to *)
(* the tool registered last under its name when the call was made.        *)
C18_LastRegistrationWins ==
  /\ \A name \in ToolNames :
       toolsGet(registry, name) = LatestRegistered(name, Len(tlog))
  /\ \A k \in DOMAIN tcall :
       /\ tcall[k].tool = LatestRegistered(tcall[k].name, tcall[k].at)
       /\ \A i \in DOMAIN tcall[k].invoked :
            tcall[k].invoked[i].tool = LatestRegistered(tcall[k].name, tcall[k].at)

(* A call reached the second tool registered under its name, with the     *)
(* other name registered in between.                                      *)
C18_Witness ==
  \E k \in DOMAIN tcall, i \in DOMAIN tlog, j \in DOMAIN tlog :
    /\ tlog[i].name = tcall[k].name
    /\ tlog[j].name # tcall[k].name
    /\ i < j /\ j < tcall[k].at
    /\ tcall[k].tool.id > tlog[j].id
    /\ Len(tcall[k].invoked) = 1
    /\ ToolDone(k)

(* C19: every settled call of a registered tool has written exactly one   *)
(* tool_call event, with the input and either the validated output or the *)
(* error's message, and a successful call returns the validated output.   *)
C19_OneToolCallEvent ==
  \A k \in DOMAIN tcall :
    (ToolDone(k) /\ tcall[k].tool # NoTool) =>
      /\ Cardinality(ToolEvents(k, "tool_call")) = 1
      /\ \A i \in ToolEvents(k, "tool_call") :
           /\ trace[i].input = tcall[k].input
           /\ trace[i].tool = tcall[k].name
           /\ IF tcall[k].settled.kind = "value"
              THEN trace[i].output = tcall[k].settled.val /\ trace[i].error = Undefined
              ELSE trace[i].output = Undefined
                   /\ trace[i].error = ErrorText(tcall[k].settled.err)
      /\ tcall[k].settled.kind = "value" =>
           tcall[k].settled.val = safeParse(tcall[k].tool.output, tcall[k].answer.val).data

(* C20: a call whose input violates the tool's input schema fails with a  *)
(* ValidationError for the input without invoking the tool; a tool whose  *)
(* output violates its output schema makes the call fail with a           *)
(* ValidationError for the output, and a returned value satisfies the     *)
(* output schema.                                                         *)
C20_ToolValidation ==
  \A k \in DOMAIN tcall :
    tcall[k].tool # NoTool =>
      /\ ~safeParse(tcall[k].tool.input, tcall[k].input).success =>
           /\ ToolDone(k)
           /\ tcall[k].settled.kind = "throw"
           /\ tcall[k].settled.err.kind = "ValidationError"
           /\ tcall[k].settled.err.message = "input validation failed"
           /\ tcall[k].settled.err.issues = safeParse(tcall[k].tool.input, tcall[k].input).issues
           /\ tcall[k].invoked = <<>>
      /\ (tcall[k].answer.kind = "value"
          /\ ~safeParse(tcall[k].tool.output, tcall[k].answer.val).success) =>
           /\ ToolDone(k)
           /\ tcall[k].settled.kind = "throw"
           /\ tcall[k].settled.err.kind = "ValidationError"
           /\ tcall[k].settled.err.message = "output validation failed"
           /\ tcall[k].settled.err.issues =
                safeParse(tcall[k].tool.output, tcall[k].answer.val).issues
      /\ tcall[k].settled.kind = "value" =>
           /\ safeParse(tcall[k].tool.output, tcall[k].answer.val).success
           /\ tcall[k].settled.val = safeParse(tcall[k].tool.output, tcall[k].answer.val).data

(* One call was rejected for its input, another for the tool's output.    *)
C20_Witness ==
  \E k \in DOMAIN tcall, l \in DOMAIN tcall :
    /\ tcall[k].tool # NoTool
    /\ tcall[k].input = "invalid"
    /\ tcall[k].settled.kind = "throw"
    /\ tcall[l].answer = Returned("invalid")
    /\ tcall[l].settled.kind = "throw"


(* ================================================================== *)
(* The evaluation harness: runEval                                      *)
(* ================================================================== *)

(* Bound: the cases of the dataset.                                       *)
MaxCases == 2

(* ------------------------------------------------------------------ *)
(* Numbers: metric values, thresholds and means, as fractions in lowest *)
(* terms (the values of the model and their sums are exact in binary    *)
(* floating point).                                                     *)
(* ------------------------------------------------------------------ *)

RECURSIVE GCD(_, _)
GCD(a, b) == IF b = 0 THEN a ELSE GCD(b, a % b)

Number(num, den) ==
  LET g == GCD(num, den) IN [num |-> num \div g, den |-> den \div g]

(* a + b *)
Plus(a, b) == Number(a.num * b.den + b.num * a.den, a.den * b.den)

(* a / n for a positive count n *)
DividedBy(a, n) == Number(a.num, a.den * n)

(* a >= b *)
GreaterOrEqual(a, b) == a.num * b.den >= b.num * a.den

(* values.reduce((a, b) => a + b, 0) *)
RECURSIVE reduceSum(_)
reduceSum(values) ==
  IF values = <<>> THEN Number(0, 1)
  ELSE Plus(reduceSum(SubSeq(values, 1, Len(values) - 1)), values[Len(values)])


(* ------------------------------------------------------------------ *)
(* Datasets, judges, scores and results                                 *)
(* ------------------------------------------------------------------ *)

MetricNames == {"key_terms", "length"}

(* type Case: id, input, expected.                                        *)
Case(i) == [id |-> <<"case", i>>, input |-> <<"input", i>>, expected |-> <<"expected", i>>]

(* Score.metrics: a record of numbers by metric name.  What a judge can   *)
(* report: nothing, a key_terms score of 0.5 or 1, a length score of 1.   *)
NoMetrics == <<>>
Metric(name, value) == [k \in {name} |-> value]

ScoreMetrics ==
  { NoMetrics, Metric("key_terms", Number(1, 2)), Metric("key_terms", Number(1, 1)),
    Metric("length", Number(1, 1)) }

(* EvalSpec.thresholds: none, key_terms at 0.75 or at 0.8, length at 1.   *)
ThresholdMaps ==
  { NoMetrics, Metric("key_terms", Number(3, 4)), Metric("key_terms", Number(4, 5)),
    Metric("length", Number(1, 1)) }

(* What runtime.run can return as output, and what it or a judge can      *)
(* throw.                                                                 *)
RunOutputs == {"valid", "coercible"}
EvalErrors == {e \in Throwables : e.kind = "Error"}

(* type EvalSpec: the dataset's cases, the number of judges, thresholds   *)
(* (name and target left out).                                            *)
EvalSpecOf(n, judges, thresholds) ==
  [cases |-> [i \in 1..n |-> Case(i)], judges |-> judges, thresholds |-> thresholds]

(* type EvalCaseResult (notes and artifacts left out).                    *)
EvalCaseResult(id, metrics) == [id |-> id, metrics |-> metrics]

(* type EvalRunResult (name and dataset name left out).                   *)
EvalRunResult(cases, aggregates, passed) ==
  [cases |-> cases, aggregates |-> aggregates, passed |-> passed]

NoEvalResult == EvalRunResult(<<>>, NoMetrics, FALSE)

EvalPending == [kind |-> "none", val |-> NoEvalResult, err |-> NoErr]
EvalReturned(result) == [kind |-> "value", val |-> result, err |-> NoErr]
EvalThrew(e) == [kind |-> "throw", val |-> NoEvalResult, err |-> e]

(* The runEval call: position, the case and judge at hand, the locals     *)
(* output, metrics, cases and aggregates, and how it settled.             *)
EvalCall(pc, i, j, output, metrics, cases, aggregates, settled) ==
  [pc |-> pc, i |-> i, j |-> j, output |-> output, metrics |-> metrics,
   cases |-> cases, aggregates |-> aggregates, settled |-> settled]

(* History entries: a call of runtime.run or of a judge with its          *)
(* arguments, and how it settled (an output, a score, or an error).       *)
LogEntry(op, case, judge, input, output, expected, metrics, err) ==
  [op |-> op, case |-> case, judge |-> judge, input |-> input, output |-> output,
   expected |-> expected, metrics |-> metrics, err |-> err]

(* The pair the steps of runEval work on: the call and the history.       *)
EvalState(e, log) == [ev |-> e, log |-> log]

(* A dataset of up to MaxCases cases, up to two judges, a threshold map.  *)
EvalInit ==
  /\ trace = <<>>
  /\ ret = NoRet
  /\ RunIdle
  /\ cache = <<>>
  /\ gens = <<>>
  /\ responded = <<>>
  /\ registry = <<>>
  /\ tcall = <<>>
  /\ tlog = <<>>
  /\ kin = <<>>
  /\ kout = <<>>
  /\ espec \in {EvalSpecOf(n, judges, thresholds) :
                  n \in 0..MaxCases, judges \in 0..2, thresholds \in ThresholdMaps}
  /\ ev = EvalCall("idle", 0, 0, Undefined, NoMetrics, <<>>, NoMetrics, EvalPending)
  /\ elog = <<>>

(* ------------------------------------------------------------------ *)
(* runEval                                                              *)
(* ------------------------------------------------------------------ *)

(* Variant: the sum is divided by the number of cases.                    *)
mean_overCases(values) == DividedBy(reduceSum(values), Len(espec.cases))

(* values.reduce((a, b) => a + b, 0) / values.length *)
mean(values) == DividedBy(reduceSum(values), Len(values))

(* aggregateSummary: the mean of every list in aggregates.                *)
aggregateSummary(aggregates) == [k \in DOMAIN aggregates |-> mean(aggregates[k])]

(* Variant: a threshold without an aggregate is passed over.              *)
passed_lenient(summary, thresholds) ==
  \A metric \in DOMAIN thresholds :
    metric \in DOMAIN summary => GreaterOrEqual(summary[metric], thresholds[metric])

(* Object.entries(spec.thresholds).every(...): achieved is defined and    *)
(* achieved >= threshold.                                                 *)
passed(summary, thresholds) ==
  \A metric \in DOMAIN thresholds :
    /\ metric \in DOMAIN summary
    /\ GreaterOrEqual(summary[metric], thresholds[metric])

(* After the loop: the aggregates, passed, the result returned.           *)
summarize(st) ==
  LET summary == aggregateSummary(st.ev.aggregates)
      result == EvalRunResult(st.ev.cases, summary, passed(summary, espec.thresholds))
  IN EvalState([st.ev EXCEPT !.pc = "done", !.settled = EvalReturned(result)], st.log)

(* The head of the loop body: runtime.run(spec.target, c.input) is called *)
(* for case i.                                                            *)
runCase(st, i) ==
  EvalState([st.ev EXCEPT !.pc = "await_run", !.i = i, !.j = 0, !.output = Undefined,
                          !.metrics = NoMetrics],
            Append(st.log, LogEntry("run", i, 0, espec.cases[i].input, Undefined,
                                    Undefined, NoMetrics, NoErr)))

(* The end of the loop body: cases.push(...), then the next case or the   *)
(* end of the loop.                                                       *)
pushCase(st) ==
  LET e == [st.ev EXCEPT !.cases = Append(st.ev.cases,
                                          EvalCaseResult(espec.cases[st.ev.i].id,
                                                         st.ev.metrics))]
  IN IF e.i < Len(espec.cases)
     THEN runCase(EvalState(e, st.log), e.i + 1)
     ELSE summarize(EvalState(e, st.log))

(* Variant: every judge is given the first case's expected value.         *)
callJudge_firstExpected(st, j) ==
  EvalState([st.ev EXCEPT !.pc = "await_judge", !.j = j],
            Append(st.log, LogEntry("judge", st.ev.i, j, espec.cases[st.ev.i].input,
                                    st.ev.output, espec.cases[1].expected,
                                    NoMetrics, NoErr)))

(* judge({input, output, expected, trace}) is called for judge j.         *)
callJudge(st, j) ==
  EvalState([st.ev EXCEPT !.pc = "await_judge", !.j = j],
            Append(st.log, LogEntry("judge", st.ev.i, j, espec.cases[st.ev.i].input,
                                    st.ev.output, espec.cases[st.ev.i].expected,
                                    NoMetrics, NoErr)))

(* Variant: the judges are not waited for.                                *)
judgeFrom_unawaited(st, j) == pushCase(st)

(* The judge loop from judge j on: call it, or leave the loop.            *)
judgeFrom(st, j) == IF j <= espec.judges THEN callJudge(st, j) ELSE pushCase(st)

(* Object.entries(score.metrics).forEach: the value is pushed on the      *)
(* metric's list in aggregates and set in the case's metrics.             *)
mergeScore(e, metrics) ==
  [e EXCEPT
     !.aggregates = [k \in DOMAIN e.aggregates \cup DOMAIN metrics |->
                       IF k \in DOMAIN metrics
                       THEN Append(IF k \in DOMAIN e.aggregates THEN e.aggregates[k]
                                   ELSE <<>>, metrics[k])
                       ELSE e.aggregates[k]],
     !.metrics = [k \in DOMAIN e.metrics \cup DOMAIN metrics |->
                    IF k \in DOMAIN metrics THEN metrics[k] ELSE e.metrics[k]]]

(* Variant: the error is dropped and the harness goes on.                 *)
rejected_swallowed(st, err) == pushCase(st)

(* An awaited call rejected: runEval rejects with the same error.         *)
rejected(st, err) ==
  EvalState([st.ev EXCEPT !.pc = "done", !.settled = EvalThrew(err)], st.log)

(* runEval(spec, runtime) up to the first await: the first case's run, or *)
(* the result for an empty dataset.                                       *)
runEval ==
  /\ ev.pc = "idle"
  /\ LET st == IF espec.cases = <<>> THEN summarize(EvalState(ev, elog))
               ELSE runCase(EvalState(ev, elog), 1)
     IN ev' = st.ev /\ elog' = st.log
  /\ UNCHANGED espec

(* runtime.run settled: rejected, or fulfilled with {output}, after which *)
(* the judges are called in turn.                                         *)
runEval_ran ==
  /\ ev.pc = "await_run"
  /\ \/ \E err \in EvalErrors :
          LET st == rejected(EvalState(ev, Append(elog, LogEntry("run_end", ev.i, 0,
                                 Undefined, Undefined, Undefined, NoMetrics, err))), err)
          IN ev' = st.ev /\ elog' = st.log
     \/ \E output \in RunOutputs :
          LET st == judgeFrom(EvalState([ev EXCEPT !.output = output],
                                        Append(elog, LogEntry("run_end", ev.i, 0, Undefined,
                                               output, Undefined, NoMetrics, NoErr))), 1)
          IN ev' = st.ev /\ elog' = st.log
  /\ UNCHANGED espec

(* A judge settled: rejected, or fulfilled with a score, which is merged  *)
(* before the next judge is called.                                       *)
runEval_judged ==
  /\ ev.pc = "await_judge"
  /\ \/ \E err \in EvalErrors :
          LET st == rejected(EvalState(ev, Append(elog, LogEntry("judge_end", ev.i, ev.j,
                                 Undefined, Undefined, Undefined, NoMetrics, err))), err)
          IN ev' = st.ev /\ elog' = st.log
     \/ \E metrics \in ScoreMetrics :
          LET st == judgeFrom(EvalState(mergeScore(ev, metrics),
                                        Append(elog, LogEntry("judge_end", ev.i, ev.j,
                                               Undefined, Undefined, Undefined, metrics,
                                               NoErr))), ev.j + 1)
          IN ev' = st.ev /\ elog' = st.log
  /\ UNCHANGED espec

EvalNext ==
  \/ runEval /\ UNCHANGED <<trace, ret, runVars, genVars, toolVars, keyVars>>
  \/ runEval_ran /\ UNCHANGED <<trace, ret, runVars, genVars, toolVars, keyVars>>
  \/ runEval_judged /\ UNCHANGED <<trace, ret, runVars, genVars, toolVars, keyVars>>

EvalSpec == EvalInit /\ [][EvalNext]_vars


(* C29: every generate call that missed the cache, and so invoked the     *)
(* responder, has written exactly one llm_call event once it has settled, *)
(* whether it returned or threw.                                          *)
C29_OneLlmCallPerMiss ==
  \A c \in Calls :
    (GenDone(c) /\ gens[c].invoked > 0) => Cardinality(LlmCalls(c)) = 1

(* C30: requests that are not the same logical request derive different   *)
(* cache keys, and an entry the cache gave to a call was stored by a call *)
(* with the same logical request (the same schema in particular).         *)
C30_KeySeparatesRequests ==
  \A c \in Calls :
    /\ \A d \in Calls :
         (gens[c].pc # "idle" /\ gens[d].pc # "idle"
            /\ ~SameLogicalRequest(gens[c].args, gens[d].args))
           => gens[c].key # gens[d].key
    /\ Truthy(gens[c].got) =>
         \E d \in Calls \ {c} :
           /\ gens[d].invoked > 0
           /\ gens[d].result = gens[c].got
           /\ SameLogicalRequest(gens[d].args, gens[c].args)

(* The request with temperature 0 and tools [] written out where unset.   *)
DefaultsWritten(args) ==
  [args EXCEPT !.temperature = IF @ = Undef THEN Num(0) ELSE @,
               !.tools = IF @ = Undef THEN Arr(<<>>) ELSE @]

(* Two requests that differ, and only in temperature unset / 0 or tools   *)
(* unset / [].                                                            *)
DifferOnlyInDefaults(a, b) == a # b /\ DefaultsWritten(a) = DefaultsWritten(b)

(* Call c got an answer from its cache lookup.                            *)
LookedUp(c) ==
  /\ gens[c].pc \notin {"idle", "get"}
  /\ ~(gens[c].invoked = 0 /\ gens[c].settled = GenThrew(CacheError))

(* C31: two requests that differ only in temperature unset / 0 or tools   *)
(* unset / [] have the same cache key, and when the first has returned    *)
(* and stored its result before the second is made, the second returns    *)
(* that result without invoking the responder.                            *)
C31_DefaultsShareKey ==
  \A c \in Calls, d \in Calls :
    (gens[c].pc # "idle" /\ gens[d].pc # "idle"
       /\ DifferOnlyInDefaults(gens[c].args, gens[d].args)) =>
      /\ gens[c].key = gens[d].key
      /\ (cache.configured /\ d \in gens[c].after /\ gens[d].settled.kind = "value"
            /\ LookedUp(c)) =>
           /\ gens[c].invoked = 0
           /\ gens[c].settled = GenReturned(gens[d].settled.val)

(* A request with temperature unset stored its result; the same request   *)
(* with temperature 0 was made afterwards and returned it.                *)
C31_Witness ==
  \E c \in Calls, d \in Calls :
    /\ gens[d].args.temperature = Undef /\ gens[c].args.temperature = Num(0)
    /\ gens[c].args.tools = gens[d].args.tools
    /\ DifferOnlyInDefaults(gens[c].args, gens[d].args)
    /\ d \in gens[c].after
    /\ gens[d].invoked = 1
    /\ GenDone(c) /\ gens[c].invoked = 0
    /\ gens[c].settled = GenReturned(gens[d].result)

(* C32: a call whose cache lookup gave a stored value, a falsy one        *)
(* included, does not invoke the responder; only an absent entry          *)
(* (undefined) is a miss.                                                 *)
C32_StoredFalsyIsHit ==
  \A c \in Calls : gens[c].got # NoResult => gens[c].invoked = 0

(* Call c invoked the responder and failed on its answer: the responder   *)
(* threw, or its output did not pass the schema.                          *)
FailedOnAnswer(c) ==
  /\ GenDone(c)
  /\ gens[c].invoked = 1
  /\ gens[c].settled.kind = "throw"
  /\ gens[c].settled.err # CacheError

(* C38: every entry of the cache, apart from what its owner put there, is *)
(* the result a call returned after the responder answered and the answer *)
(* was parsed; a call that failed on the responder's answer stored        *)
(* nothing, so the same request made after it finds no entry and invokes  *)
(* the responder again.                                                   *)
C38_FailedCallLeavesCache ==
  /\ \A k \in DOMAIN cache.entries :
       \/ cache.entries[k] = StoredNull
       \/ \E d \in Calls :
            /\ gens[d].key = k
            /\ gens[d].invoked = 1
            /\ gens[d].answer.kind = "value"
            /\ gens[d].result = cache.entries[k]
            /\ gens[d].settled = GenReturned(cache.entries[k])
  /\ \A c \in Calls, d \in Calls :
       (c # d /\ FailedOnAnswer(c) /\ c \in gens[d].after
          /\ gens[d].key = gens[c].key /\ LookedUp(d)) =>
         /\ ~Truthy(gens[d].got)
         /\ gens[d].invoked = 1

(* The first call's output failed its schema with a cache configured; the *)
(* same request was made again and the responder was invoked again.       *)
C38_Witness ==
  \E c \in Calls, d \in Calls :
    /\ c # d /\ FailedOnAnswer(c)
    /\ gens[c].settled.err.kind = "ValidationError"
    /\ cache.configured
    /\ c \in gens[d].after
    /\ gens[d].args = gens[c].args
    /\ gens[d].invoked = 1
    /\ Len(responded) = 2

(* ------------------------------------------------------------------ *)
(* Properties of contexts and spans in a run                            *)
(* ------------------------------------------------------------------ *)

(* The collaborators a context carries.                                   *)
Collaborators(ctx) == <<ctx.llm, ctx.tools, ctx.cache, ctx.policies>>

(* ctx2 is what ctx1.child(...) returns: a context of the same run on a   *)
(* span that was started once, as a child of ctx1's span, and with ctx1's *)
(* collaborators.                                                         *)
IsChildOf(ctx2, ctx1) ==
  /\ ctx2.runId = ctx1.runId
  /\ ctx2.spanId # ctx1.spanId
  /\ ctx2.parentSpanId = ctx1.spanId
  /\ Collaborators(ctx2) = Collaborators(ctx1)
  /\ \E i \in StartsOf(ctx2.spanId) :
       /\ StartsOf(ctx2.spanId) = {i}
       /\ trace[i].parentSpanId = ctx1.spanId
       /\ trace[i].runId = ctx1.runId
       /\ \E j \in StartsOf(ctx1.spanId) : j < i

(* C25: a context from which children were made is still the context it   *)
(* was: the root context is on the root span; a unit that made its span   *)
(* context with ctx.child still holds the context its caller gave it, and *)
(* its body received the child; a body that passed ctx.child(...) on is   *)
(* still on its unit's span.  The span of Trace.span and the span of a    *)
(* unit called with the same context are children of that one context.    *)
C25_ChildLeavesParentUnchanged ==
  \A n \in DOMAIN stack :
    LET f == stack[n]
    IN /\ n = 1 =>
            /\ f.ctx.runId = req.runId
            /\ f.ctx.spanId = req.rootSpanId
            /\ f.ctx.parentSpanId = NoSpan
       /\ n > 1 =>
            LET g == stack[n - 1]
            IN CASE f.fn = "unit" ->
                      \/ f.ctx = g.ctx
                      \/ /\ g.fn = "body"
                         /\ opened[f.ctx.spanId] = "ctx.child"
                         /\ IsChildOf(f.ctx, g.ctx)
                 [] f.fn = "body" /\ g.fn = "unit" ->
                      /\ opened[f.ctx.spanId] = "wrapper"
                      /\ IsChildOf(f.ctx, g.ctx)
                      /\ f.ctx.spanId = g.own.spanId
                 [] OTHER -> f.ctx = g.ctx
       /\ f.fn = "span" =>
            /\ f.own.parentSpanId = f.ctx.spanId
            /\ f.own.spanId # f.ctx.spanId

(* A context made with ctx.child was given to a unit; under it a body,    *)
(* still on its own span, opened a span with Trace.span and then called a *)
(* unit with the same context: both spans are children of that context.   *)
C25_Witness ==
  \E n \in DOMAIN stack, m \in DOMAIN stack :
    /\ n + 1 < m /\ m < Len(stack)
    /\ stack[n].fn = "unit" /\ opened[stack[n].ctx.spanId] = "ctx.child"
    /\ stack[n].ctx.policies = "options.policies"
    /\ stack[m].fn = "span" /\ stack[m + 1].fn = "unit"
    /\ stack[m + 1].pc = "await_body"
    /\ stack[m].ctx = stack[m + 1].ctx
    /\ stack[m].own.parentSpanId = stack[m + 1].own.parentSpanId
    /\ stack[m].own.spanId # stack[m + 1].own.spanId

(* The wrapper invocations now awaiting their body.                       *)
Awaiting ==
  {stack[n].own.spanId : n \in {m \in DOMAIN stack :
                                  stack[m].fn = "unit" /\ stack[m].pc = "await_body"}}

(* C26: once a body (or a span callback) has thrown e, e is the error     *)
(* that travels: every wrapper that called its body has either got its    *)
(* body's value earlier, is still awaiting, or has caught e, written one  *)
(* span_end for its own span with e's text (e.message for an Error) and   *)
(* rethrown e itself; no wrapper called its body more than once.          *)
C26_WrappersRethrowUnchanged ==
  /\ \A s \in Wrappers : units[s].body <= 1
  /\ thrown # <<>> =>
       LET e == thrown[1].err
       IN /\ Len(thrown) = 1
          /\ \/ ret = Threw(e)
             \/ Running("run", "catch") /\ Top.err = e
             \/ outcome.kind = "threw" /\ outcome.err = e
          /\ \A s \in Wrappers :
               units[s].body = 1 =>
                 \/ units[s].bodyRet.kind = "value"
                 \/ s \in Awaiting /\ units[s].bodyRet = NoRet
                 \/ /\ units[s].bodyRet = Threw(e)
                    /\ units[s].result = Threw(e)
                    /\ Cardinality(EndsOf(s)) = 1
                    /\ \A j \in EndsOf(s) :
                         /\ trace[j].error = ErrorText(e)
                         /\ e.kind = "Error" => trace[j].error = e.message
                         /\ trace[j].parentSpanId = trace[CHOOSE i \in StartsOf(s) : TRUE].parentSpanId

(* The body of the innermost of three nested wrappers threw an Error and  *)
(* all three wrappers have rethrown it.                                   *)
C26_Witness ==
  /\ thrown # <<>>
  /\ thrown[1].fn = "body"
  /\ thrown[1].level = MaxDepth
  /\ thrown[1].err.kind = "Error"
  /\ Cardinality({s \in Wrappers : units[s].result = Threw(thrown[1].err)}) = MaxDepth
  /\ Settled

(* The spans opened by Trace.span and the frames of its invocations.      *)
TraceSpans == {s \in DOMAIN opened : opened[s] = "Trace.span"}
SpanFrames == {n \in DOMAIN stack : stack[n].fn = "span"}

(* Each span of Trace.span has one span_start; none of its span_end while *)
(* the invocation is running, exactly one, matching the start, after it.  *)
SpanEndedOnce ==
  \A s \in TraceSpans :
    /\ Cardinality(StartsOf(s)) = 1
    /\ IF \E n \in SpanFrames : stack[n].own.spanId = s
       THEN EndsOf(s) = {}
       ELSE /\ Cardinality(EndsOf(s)) = 1
            /\ \A i \in StartsOf(s), j \in EndsOf(s) :
                 /\ i < j
                 /\ trace[j].name = trace[i].name
                 /\ trace[j].parentSpanId = trace[i].parentSpanId
                 /\ trace[j].runId = trace[i].runId

(* The step Trace.span takes once fn has settled: one more event, the     *)
(* span_end of its span, with the error text exactly when fn threw, and   *)
(* fn's completion handed to the caller as it is.                         *)
SpanSettles ==
  Running("span", "settle") =>
    /\ ret.kind # "none"
    /\ ret' = ret
    /\ stack' = Pop
    /\ Len(trace') = Len(trace) + 1
    /\ SubSeq(trace', 1, Len(trace)) = trace
    /\ LET end == trace'[Len(trace')]
       IN /\ end.type = "span_end"
          /\ end.spanId = Top.own.spanId
          /\ end.error = IF ret.kind = "value" THEN Undefined
                         ELSE IF ret.err.message # Undefined THEN ret.err.message
                         ELSE ret.err.text

(* An invocation of Trace.span that has called fn does not call it again. *)
CallbackRunsOnce ==
  \A n \in SpanFrames :
    (stack[n].pc = "settle" /\ n <= Len(stack')) => stack'[n] = stack[n]

(* C27: Trace.span writes one span_start for a new child span, runs fn    *)
(* once and writes exactly one span_end for the span when fn has settled, *)
(* with the error text when fn threw; it returns what fn returned and     *)
(* rethrows what fn threw.                                                *)
C27_SpanEndsOnBothPaths ==
  []SpanEndedOnce /\ [][SpanSettles /\ CallbackRunsOnce]_vars

(* Two nested Trace.span invocations ended with the error the inner       *)
(* callback threw, and the error is on its way to the caller.             *)
C27_Witness ==
  /\ thrown # <<>>
  /\ thrown[1].fn = "span"
  /\ thrown[1].err.kind = "Error"
  /\ Cardinality({s \in TraceSpans :
                    \E j \in EndsOf(s) : trace[j].error = thrown[1].err.message}) = 2
  /\ ret = Threw(thrown[1].err)

(* C28: in every state of a run, exactly one span_start has no parent,   *)
(* the root span's, written first; every other span_start names as parent *)
(* a span of the same run that was started earlier; no span id is started *)
(* twice.                                                                 *)
C28_SpansFormTree ==
  trace # <<>> =>
    /\ {i \in Events("span_start") : trace[i].parentSpanId = NoSpan} = {1}
    /\ trace[1].spanId = Root
    /\ trace[1].runId = req.runId
    /\ \A i \in Events("span_start") :
         /\ trace[i].runId = req.runId
         /\ StartsOf(trace[i].spanId) = {i}
         /\ i > 1 =>
              \E j \in Events("span_start") :
                /\ j < i
                /\ trace[j].spanId = trace[i].parentSpanId
                /\ trace[j].runId = trace[i].runId

(* A tree three levels deep below the root in which one span has two      *)
(* children.                                                              *)
C28_Witness ==
  /\ \E i \in Events("span_start"), j \in Events("span_start") :
       /\ i # j
       /\ trace[i].parentSpanId = trace[j].parentSpanId
       /\ trace[i].parentSpanId # NoSpan
  /\ \E i \in Events("span_start"), j \in Events("span_start"),
        k \in Events("span_start") :
       /\ trace[i].parentSpanId = trace[j].spanId
       /\ trace[j].parentSpanId = trace[k].spanId
       /\ trace[k].parentSpanId = Root

(* The position of the span_start of the span that event j is about.      *)
StartOf(j) ==
  CHOOSE i \in DOMAIN trace :
    trace[i].type = "span_start" /\ trace[i].spanId = trace[j].spanId

(* C37: whenever a span_end has just been written, no span that was open  *)
(* when its span started has ended yet: for a step or workflow span its   *)
(* parent span in particular, and for every span but the root the root    *)
(* span.  So the span_end of a span comes before the span_end of its      *)
(* parent, and the root's span_end after all others.                      *)
C37_SpansCloseNested ==
  (trace # <<>> /\ trace[Len(trace)].type = "span_end") =>
    LET n == Len(trace)
    IN \A k \in Events("span_end") \ {n} :
         /\ opened[trace[n].spanId] = "wrapper" =>
              trace[k].spanId # trace[n].parentSpanId
         /\ trace[n].spanId # Root => trace[k].spanId # Root
         /\ ~(StartOf(k) < StartOf(n) /\ StartOf(n) < k)

(* A run three wrappers deep has settled and all four spans have ended.   *)
C37_Witness ==
  /\ Settled
  /\ Cardinality({s \in Wrappers : EndsOf(s) # {}}) = MaxDepth
  /\ \E s \in Wrappers, t \in Wrappers :
       /\ s # t
       /\ \E i \in StartsOf(s) : trace[i].parentSpanId = t
       /\ EndsOf(s) # {} /\ EndsOf(t) # {}
  /\ EndsOf(Root) # {}

(* What a validated boundary (a wrapper, or the orchestrator for its      *)
(* target) must have done by the schemas alone: an invalid input is       *)
(* rejected with a ValidationError before the body is called, an invalid  *)
(* output of the body likewise after it, and the body is called at most   *)
(* once whatever it did.                                                  *)
BoundaryBySchemas(s) ==
  /\ units[s].body <= 1
  /\ ~InputOk(s) =>
       /\ units[s].body = 0
       /\ units[s].result.kind \in {"none", "throw"}
       /\ units[s].result.kind = "throw" =>
            /\ units[s].result.err.kind = "ValidationError"
            /\ units[s].result.err.issues = InputIssues(s)
  /\ (units[s].bodyRet.kind = "value" /\ ~OutputOk(s)) =>
       /\ units[s].result.kind \in {"none", "throw"}
       /\ units[s].result.kind = "throw" =>
            /\ units[s].result.err.kind = "ValidationError"
            /\ units[s].result.err.issues = OutputIssues(s)
  /\ units[s].bodyRet.kind = "throw" =>
       units[s].result \in {NoRet, units[s].bodyRet}

RunCalls ==
  {c \in {RunCall(stack, ret, outcome, req), parked} : c.outcome.kind # "idle"}

Overlapping == outcome.kind = "pending" /\ parked.outcome.kind = "pending"

SpanEvents == Events("span_start") \cup Events("span_end")

(* Each run has its own run id and root span.                             *)
OwnRunIdAndRoot ==
  (outcome.kind # "idle" /\ parked.outcome.kind # "idle") =>
     /\ req.runId # parked.req.runId
     /\ req.rootSpanId # parked.req.rootSpanId

(* No span id occurs in events of two runs.                               *)
SpansOfOneRun ==
  \A i \in SpanEvents : \A j \in SpanEvents :
     trace[i].spanId = trace[j].spanId => trace[i].runId = trace[j].runId

(* The parent of every span was started before it, in the same run.       *)
ParentInSameRun ==
  \A i \in Events("span_start") :
     trace[i].parentSpanId # NoSpan =>
       \E j \in Events("span_start") :
          /\ j < i
          /\ trace[j].spanId = trace[i].parentSpanId
          /\ trace[j].runId = trace[i].runId

(* Every context and trace handle a call of run holds is of its own run.  *)
ContextsOfOwnRun ==
  \A c \in RunCalls : \A n \in DOMAIN c.stack :
     /\ c.stack[n].ctx.runId = c.req.runId
     /\ c.stack[n].own # NoHandle => c.stack[n].own.runId = c.req.runId

(* The events a step writes carry the run id of the run that takes it.    *)
EmitsOwnRunId ==
  \A i \in DOMAIN trace' \ DOMAIN trace : trace'[i].runId = req'.runId

(* C35: runs of one runtime that are active at the same time share no     *)
(* span state: each has its own run id and root span, no span id occurs   *)
(* in two runs, a span's parent is a span of the same run, and every      *)
(* event carries the run id of the run whose context emitted it.          *)
C35_RunsShareNoSpanState ==
  /\ [](OwnRunIdAndRoot /\ SpansOfOneRun /\ ParentInSameRun /\ ContextsOfOwnRun)
  /\ [][EmitsOwnRunId]_vars

(* Two runs are active, each has opened a span below its root, and the    *)
(* one that began first wrote an event after the other one had begun.     *)
C35_Witness ==
  /\ Overlapping
  /\ \A c \in RunCalls :
       \E i \in Events("span_start") :
          /\ trace[i].runId = c.req.runId
          /\ trace[i].parentSpanId = c.req.rootSpanId
  /\ \E i \in DOMAIN trace : \E j \in DOMAIN trace :
       /\ i < j
       /\ trace[i].runId > trace[j].runId

(* The sink a run writes to is the caller's, when one was given to        *)
(* createRuntime, and otherwise a JsonlTraceSink of that run alone        *)
(* (part_003:454): events i and j went to the same sink.                  *)
SameSink(i, j) ==
  runtime.sink # Undefined \/ trace[i].runId = trace[j].runId

(* C36: no event is written to a sink after that sink was closed.         *)
C36_NoWriteAfterClose ==
  \A k \in DOMAIN closes : \A i \in DOMAIN trace :
     i > closes[k] => ~SameSink(i, closes[k])

(* With a sink per run, no event follows the close of its sink.           *)
C36_OwnSinkNoWriteAfterClose ==
  runtime.sink = Undefined => C36_NoWriteAfterClose

(* The events that are written on a span between its start and its end.  *)
PointEvents == {"llm_call", "tool_call", "validation_error", "event", "artifact"}

(* C39: every llm_call, tool_call, validation_error, event and artifact   *)
(* event of a run's trace carries the run's id and the id of a span that  *)
(* had been started and had not been ended when the event was written.    *)
C39_EventsOnOpenSpan ==
  \A i \in DOMAIN trace :
     trace[i].type \in PointEvents =>
       /\ trace[i].runId = req.runId
       /\ \E j \in StartsOf(trace[i].spanId) :
            j < i /\ trace[j].runId = trace[i].runId
       /\ \A k \in EndsOf(trace[i].spanId) : i < k

(* A settled run in whose trace all five kinds of event occur on the span *)
(* of a wrapper, which was ended after them.                              *)
C39_Witness ==
  /\ Settled
  /\ \E s \in Wrappers :
       /\ EndsOf(s) # {}
       /\ \A type \in PointEvents :
            \E i \in Events(type) : trace[i].spanId = s

(* ------------------------------------------------------------------ *)
(* Properties of runEval                                                *)
(* ------------------------------------------------------------------ *)

(* The values the judges reported for a metric, in order.                 *)
Reports(k) ==
  LET entries == SelectSeq(elog, LAMBDA x : x.op = "judge_end" /\ k \in DOMAIN x.metrics)
  IN [n \in DOMAIN entries |-> entries[n].metrics[k]]

(* The cases for which some judge reported the metric.                    *)
CasesReporting(k) ==
  {elog[p].case : p \in {q \in DOMAIN elog :
                           elog[q].op = "judge_end" /\ k \in DOMAIN elog[q].metrics}}

(* n times a *)
Times(a, n) == Number(a.num * n, a.den)

SameNumber(a, b) == a.num * b.den = b.num * a.den

EvalResult == ev.settled.val

(* C21: in a result, a metric has an aggregate exactly when some judge    *)
(* reported it, and the aggregate times the number of reported values is  *)
(* their sum; when every case reported it once, that number is the number *)
(* of cases, and a case that did not report it is not counted.            *)
C21_AggregateIsMean ==
  ev.settled.kind = "value" =>
    \A k \in MetricNames :
      /\ k \in DOMAIN EvalResult.aggregates <=> Reports(k) # <<>>
      /\ Reports(k) # <<>> =>
           /\ SameNumber(Times(EvalResult.aggregates[k], Len(Reports(k))),
                         reduceSum(Reports(k)))
           /\ Len(Reports(k)) >= Cardinality(CasesReporting(k))
           /\ Len(Reports(k)) = Cardinality(CasesReporting(k)) =>
                /\ Len(Reports(k)) =
                     Cardinality({i \in DOMAIN EvalResult.cases :
                                    k \in DOMAIN EvalResult.cases[i].metrics})
                /\ SameNumber(reduceSum(Reports(k)),
                              reduceSum([n \in 1..Len(Reports(k)) |->
                                 LET having == {i \in DOMAIN EvalResult.cases :
                                                  k \in DOMAIN EvalResult.cases[i].metrics}
                                     i == CHOOSE i \in having :
                                            Cardinality({h \in having : h <= i}) = n
                                 IN EvalResult.cases[i].metrics[k]]))

(* Both cases scored key_terms (0.5 and 1, mean 0.75); only one of them   *)
(* scored length, whose mean is its single value.                         *)
C21_Witness ==
  /\ ev.settled.kind = "value"
  /\ Len(espec.cases) = 2
  /\ Reports("key_terms") = <<Number(1, 2), Number(1, 1)>>
  /\ CasesReporting("key_terms") = {1, 2}
  /\ EvalResult.aggregates["key_terms"] = Number(3, 4)
  /\ Cardinality(CasesReporting("length")) = 1
  /\ EvalResult.aggregates["length"] = Number(1, 1)

(* C22: passed is true exactly when every metric of the threshold map has *)
(* an aggregate that is at least the threshold; with scores 0.5 and 1 the *)
(* aggregate 0.75 passes threshold 0.75 and fails threshold 0.8.          *)
C22_PassedIffThresholdsMet ==
  ev.settled.kind = "value" =>
    /\ EvalResult.passed <=>
         \A m \in DOMAIN espec.thresholds :
           /\ m \in DOMAIN EvalResult.aggregates
           /\ EvalResult.aggregates[m].num * espec.thresholds[m].den
                >= espec.thresholds[m].num * EvalResult.aggregates[m].den
    /\ espec.thresholds = NoMetrics => EvalResult.passed
    /\ \A m \in DOMAIN espec.thresholds :
         Reports(m) = <<>> => ~EvalResult.passed
    /\ Reports("key_terms") = <<Number(1, 2), Number(1, 1)>> =>
         /\ espec.thresholds = Metric("key_terms", Number(3, 4)) => EvalResult.passed
         /\ espec.thresholds = Metric("key_terms", Number(4, 5)) => ~EvalResult.passed

(* Scores 0.5 and 1 against threshold 0.75: the aggregate equals the      *)
(* threshold and the run passes.                                          *)
C22_Witness ==
  /\ ev.settled.kind = "value"
  /\ Reports("key_terms") = <<Number(1, 2), Number(1, 1)>>
  /\ espec.thresholds = Metric("key_terms", Number(3, 4))
  /\ EvalResult.passed

(* The history entries of one kind for a case.                            *)
Entries(op, i) == {p \in DOMAIN elog : elog[p].op = op /\ elog[p].case = i}

(* C23: the runs are made in dataset order, one per case; every call the  *)
(* harness makes has settled before it makes the next one; and the run of *)
(* a case starts only after the run of the case before has returned and   *)
(* each judge has scored that case.                                       *)
C23_CasesSequential ==
  /\ \A p \in DOMAIN elog :
       elog[p].op \in {"run", "judge"} =>
         /\ p < Len(elog) =>
              /\ elog[p + 1].op = (IF elog[p].op = "run" THEN "run_end" ELSE "judge_end")
              /\ elog[p + 1].case = elog[p].case
              /\ elog[p + 1].judge = elog[p].judge
         /\ p = Len(elog) => ev.pc = (IF elog[p].op = "run" THEN "await_run"
                                     ELSE "await_judge")
  /\ \A i \in DOMAIN espec.cases :
       /\ Cardinality(Entries("run", i)) <= 1
       /\ \A p \in Entries("run", i) :
            /\ elog[p].input = espec.cases[i].input
            /\ i > 1 =>
                 /\ \E q \in Entries("run_end", i - 1) : q < p /\ elog[q].err = NoErr
                 /\ \A j \in 1..espec.judges :
                      \E q \in Entries("judge_end", i - 1) :
                        q < p /\ elog[q].judge = j /\ elog[q].err = NoErr

(* The second case's run was started after two judges scored the first.   *)
C23_Witness ==
  /\ espec.judges = 2
  /\ Entries("run", 2) # {}
  /\ Cardinality(Entries("judge_end", 1)) = 2
  /\ ev.settled.kind = "value"

(* C24: once a run or a judge has thrown, runEval is rejected with that   *)
(* error, has no result, and has made no further call.                    *)
C24_CaseFailureFailsEval ==
  \A p \in DOMAIN elog :
    elog[p].err # NoErr =>
      /\ p = Len(elog)
      /\ ev.pc = "done"
      /\ ev.settled = EvalThrew(elog[p].err)
      /\ ev.settled.val = NoEvalResult
      /\ \A i \in DOMAIN espec.cases : i > elog[p].case => Entries("run", i) = {}

(* The first of two cases failed in its run; no second run was made.      *)
C24_Witness ==
  /\ Len(espec.cases) = 2
  /\ \E p \in Entries("run_end", 1) : elog[p].err # NoErr
  /\ ev.settled.kind = "throw"
  /\ Entries("run", 2) = {}

(* The values a metric has in the result's per-case metric sets, in case  *)
(* order.                                                                 *)
CaseValues(k) ==
  LET having == SelectSeq(EvalResult.cases, LAMBDA x : k \in DOMAIN x.metrics)
  IN [n \in DOMAIN having |-> having[n].metrics[k]]

(* C33: for every metric of a result, the aggregate is the arithmetic     *)
(* mean of the values the metric has in the result's per-case metric      *)
(* sets, also when two judges reported the metric for one case.           *)
C33_AggregateMatchesCaseMetrics ==
  ev.settled.kind = "value" =>
    \A k \in DOMAIN EvalResult.aggregates :
      /\ CaseValues(k) # <<>>
      /\ SameNumber(Times(EvalResult.aggregates[k], Len(CaseValues(k))),
                    reduceSum(CaseValues(k)))

(* The calls of judge j for case i in the history.                        *)
JudgeCalls(i, j) == {p \in Entries("judge", i) : elog[p].judge = j}

(* C40: a completed runEval has one case result per dataset case, in      *)
(* dataset order and with the case's id; each case was run once with its  *)
(* input, and each judge was called once per case, in declared order      *)
(* after the run, with the case's input, that run's output and the case's *)
(* expected value.                                                        *)
C40_OneResultPerCase ==
  ev.settled.kind = "value" =>
    /\ Len(EvalResult.cases) = Len(espec.cases)
    /\ \A p \in DOMAIN elog :
         /\ elog[p].case \in DOMAIN espec.cases
         /\ elog[p].op \in {"judge", "judge_end"} => elog[p].judge \in 1..espec.judges
    /\ \A i \in DOMAIN espec.cases :
         /\ EvalResult.cases[i].id = espec.cases[i].id
         /\ Cardinality(Entries("run", i)) = 1
         /\ Cardinality(Entries("run_end", i)) = 1
         /\ \A p \in Entries("run", i), q \in Entries("run_end", i) :
              /\ p < q
              /\ elog[p].input = espec.cases[i].input
              /\ \A j \in 1..espec.judges :
                   /\ Cardinality(JudgeCalls(i, j)) = 1
                   /\ \A c \in JudgeCalls(i, j) :
                        /\ q < c
                        /\ elog[c].input = espec.cases[i].input
                        /\ elog[c].output = elog[q].output
                        /\ elog[c].expected = espec.cases[i].expected
                        /\ j > 1 => \A b \in JudgeCalls(i, j - 1) : b < c

(* Two cases whose runs gave different outputs, each scored by two judges.*)
C40_Witness ==
  /\ ev.settled.kind = "value"
  /\ Len(espec.cases) = 2
  /\ espec.judges = 2
  /\ \E p \in Entries("run_end", 1), q \in Entries("run_end", 2) :
       elog[p].output # elog[q].output
  /\ Len(EvalResult.cases) = 2

====
